---- MODULE Spec2Model ----
(***************************************************************************)
(* Curriculum progress tracker: the state reducer, the progress engine,   *)
(* the localStorage persistence adapter and the CurriculumProvider         *)
(* load-on-mount / save-on-change lifecycle.                               *)
(*                                                                         *)
(* Encoding of JavaScript values                                           *)
(*   number      week ids, counts and percentages are integers; the value  *)
(*               of (a / b) * 100 is computed in IEEE-754 binary64         *)
(*   Date        a valid Date is its day number 1..MaxDate, the Invalid    *)
(*               Date (NaN time value) is InvalidDate, an absent optional   *)
(*               date is undefined                                         *)
(*   string      a TLA+ string                                             *)
(*   object      a function from property names to values; a property     *)
(*               that is missing is a name outside the DOMAIN              *)
(*   JSON scalar [t |-> typeof, v |-> its JSON token]                      *)
(***************************************************************************)
EXTENDS Integers, Sequences, FiniteSets, TLC

VARIABLES state, store, faulty, op, action, prev, prevStore, ret, arg

vars == <<state, store, faulty, op, action, prev, prevStore, ret, arg>>

(***************************************************************************)
(* Bounds of the model                                                     *)
(***************************************************************************)
MaxDate == 2
NumWeeks == 2
MaxCourses == 1

(***************************************************************************)
(* IEEE-754 binary64 arithmetic, as far as the progress engine uses it:    *)
(* Math.round((a / b) * 100).  The 53-bit significand of a double is kept  *)
(* as a natural number in limbs of LimbBits bits, least significant limb   *)
(* first, so that no intermediate value leaves the 32-bit integers.        *)
(***************************************************************************)
MantissaBits == 53
LimbBits == 13
Base == 2 ^ LimbBits

Cmp(a, b) == IF a > b THEN 1 ELSE IF a = b THEN 0 ELSE -1

\* number of bits of the natural number v < 2^31
BitLen(v) == CHOOSE j \in 0..31 : (j = 0 \/ v >= 2 ^ (j - 1)) /\ (j = 31 \/ v < 2 ^ j)

\* strip the zero limbs at the most significant end
RECURSIVE BigTrim(_)
BigTrim(a) ==
    IF a = <<>> \/ a[Len(a)] # 0 THEN a ELSE BigTrim(SubSeq(a, 1, Len(a) - 1))

RECURSIVE BigMulSmall(_, _, _)
BigMulSmall(a, m, carry) ==
    IF a = <<>> THEN (IF carry = 0 THEN <<>> ELSE <<carry>>)
    ELSE LET t == a[1] * m + carry
         IN  <<t % Base>> \o BigMulSmall(Tail(a), m, t \div Base)

RECURSIVE BigAddSmall(_, _)
BigAddSmall(a, carry) ==
    IF carry = 0 THEN a
    ELSE IF a = <<>> THEN <<carry>>
    ELSE LET t == a[1] + carry
         IN  <<t % Base>> \o BigAddSmall(Tail(a), t \div Base)

BigBitLen(a) ==
    LET t == BigTrim(a)
    IN  IF t = <<>> THEN 0 ELSE LimbBits * (Len(t) - 1) + BitLen(t[Len(t)])

\* a shifted right by sh bits
BigShr(a, sh) ==
    LET drop == sh \div LimbBits
        b    == sh % LimbBits
        n    == Len(a) - drop
        limb(i) == IF i <= Len(a) THEN a[i] ELSE 0
    IN  IF n <= 0 THEN <<>>
        ELSE BigTrim([i \in 1..n |->
                 (limb(i + drop) \div (2 ^ b))
                 + (limb(i + drop + 1) % (2 ^ b)) * (2 ^ (LimbBits - b))])

\* the low sh bits of a, for sh <= LimbBits
BigLow(a, sh) == IF a = <<>> THEN 0 ELSE a[1] % (2 ^ sh)

BigIsOdd(a) == a # <<>> /\ a[1] % 2 = 1

\* the value of a natural number of at most two limbs
BigToInt(a) ==
    IF a = <<>> THEN 0 ELSE IF Len(a) = 1 THEN a[1] ELSE a[1] + Base * a[2]

\* the significand rounded to nearest, ties to even: `cmp` compares the
\* discarded part to one half of the last kept place
RoundNearestEven(kept, cmp) ==
    IF cmp > 0 \/ (cmp = 0 /\ BigIsOdd(kept)) THEN BigAddSmall(kept, 1) ELSE kept

RECURSIVE NormShift(_, _)
NormShift(c, n) == IF c >= n THEN 0 ELSE 1 + NormShift(2 * c, n)

\* the double nearest to c / n for integers 0 < c <= n < 2^17: the value is
\* sig * 2^(-scale)
FDiv(c, n) ==
    LET k  == NormShift(c, n)
        r0 == c * (2 ^ k) - n
        d1 == (r0 * Base) \div n
        r1 == (r0 * Base) % n
        d2 == (r1 * Base) \div n
        r2 == (r1 * Base) % n
        d3 == (r2 * Base) \div n
        r3 == (r2 * Base) % n
        d4 == (r3 * Base) \div n
        r4 == (r3 * Base) % n
    IN  [sig   |-> RoundNearestEven(<<d4, d3, d2, d1, 1>>, Cmp(2 * r4, n)),
         scale |-> (MantissaBits - 1) + k]

\* the double nearest to x * m, for a positive double x and an integer
\* 1 <= m < 2^LimbBits
FMul(x, m) ==
    LET p    == BigMulSmall(x.sig, m, 0)
        s    == BigBitLen(p) - MantissaBits
    IN  IF s <= 0 THEN [sig |-> p, scale |-> x.scale]
        ELSE [sig   |-> RoundNearestEven(BigShr(p, s),
                                         Cmp(BigLow(p, s), 2 ^ (s - 1))),
              scale |-> x.scale - s]

\* Math.round of a positive double below 2^17: the nearest integer, a tie
\* going up, floor(x + 1/2)
MathRound(x) ==
    IF x.scale <= 0 THEN BigToInt(x.sig) * (2 ^ (0 - x.scale))
    ELSE (BigToInt(BigShr(x.sig, x.scale - 1)) + 1) \div 2

\* the totals for which the values below are computed once and kept
TabulatedTotals == 1..40

\* Math.round((c / n) * 100) for every 0 <= c <= n with n a tabulated total
PercentTable ==
    [n \in TabulatedTotals |->
        [c \in 0..n |-> IF c = 0 THEN 0 ELSE MathRound(FMul(FDiv(c, n), 100))]]

\* Math.round((c / n) * 100) for integers 0 <= c <= n, 0 < n
RoundPercent(c, n) ==
    IF n \in TabulatedTotals THEN PercentTable[n][c]
    ELSE IF c = 0 THEN 0 ELSE MathRound(FMul(FDiv(c, n), 100))

\* round(100 * c / n) in exact arithmetic, a tie going up
ExactPercent(c, n) == (200 * c + n) \div (2 * n)


(***************************************************************************)
(* Domain model (types/curriculum.ts)                                      *)
(*   Course          [id, name, startDate, endDate, completed]             *)
(*   Week            [id, title, courses, progress]                        *)
(*   CurriculumState [weeks, overallProgress]                              *)
(*   CurriculumAction [type, payload], payload an object with the         *)
(*                   optional properties weekId, courseId, date, data      *)
(***************************************************************************)
undefined == -1
InvalidDate == 0
Dates == 1..MaxDate

Course(id, name, startDate, endDate, completed) ==
    [id |-> id, name |-> name, startDate |-> startDate, endDate |-> endDate,
     completed |-> completed]

Week(id, title, courses, progress) ==
    [id |-> id, title |-> title, courses |-> courses, progress |-> progress]

CurriculumState(weeks, overallProgress) ==
    [weeks |-> weeks, overallProgress |-> overallProgress]

CurriculumActionType ==
    {"SET_START_DATE", "SET_END_DATE", "TOGGLE_COMPLETION", "LOAD_DATA"}

(***************************************************************************)
(* Seed catalog (data/initialCurriculum.ts), scaled down: NumWeeks weeks   *)
(* with ids 1..NumWeeks, the first with MaxCourses courses and the others  *)
(* with one; course ids follow the catalog's "<week>-<index>" pattern,     *)
(* every course incomplete and undated, every progress 0.                  *)
(***************************************************************************)
CourseId(w, i) == ToString(w) \o "-" \o ToString(i)

CoursesInWeek(w) == IF w = 1 THEN MaxCourses ELSE 1

initialCurriculumData ==
    [w \in 1..NumWeeks |->
        Week(w, "week " \o ToString(w),
             [i \in 1..CoursesInWeek(w) |->
                 Course(CourseId(w, i), "course " \o CourseId(w, i),
                        undefined, undefined, FALSE)],
             0)]

getInitialCurriculumState == CurriculumState(initialCurriculumData, 0)

(***************************************************************************)
(* Progress engine (utils/progressCalculator.ts)                           *)
(***************************************************************************)
\* courses.filter(course => course.completed).length
CompletedCount(courses) ==
    Cardinality({i \in 1..Len(courses) : courses[i].completed})

RECURSIVE Reduce(_)
\* numbers.reduce((total, n) => total + n, 0)
Reduce(numbers) ==
    IF numbers = <<>> THEN 0 ELSE Head(numbers) + Reduce(Tail(numbers))

\* as calculateWeekProgress, rounding down
calculateWeekProgressFloor(courses) ==
    IF Len(courses) = 0 THEN 0
    ELSE (CompletedCount(courses) * 100) \div Len(courses)

calculateWeekProgress(courses) ==
    IF Len(courses) = 0 THEN 0
    ELSE RoundPercent(CompletedCount(courses), Len(courses))

calculateOverallProgress(weeks) ==
    LET totalCourses ==
            Reduce([i \in 1..Len(weeks) |-> Len(weeks[i].courses)])
        completedCourses ==
            Reduce([i \in 1..Len(weeks) |-> CompletedCount(weeks[i].courses)])
    IN  IF totalCourses = 0 THEN 0
        ELSE RoundPercent(completedCourses, totalCourses)

\* as updateAllProgress, with the overall value read from the first week's
\* progress as it was before the recomputation
updateAllProgressStale(s) ==
    LET updatedWeeks ==
            [i \in 1..Len(s.weeks) |->
                [s.weeks[i] EXCEPT !.progress = calculateWeekProgress(s.weeks[i].courses)]]
    IN  CurriculumState(updatedWeeks,
                        IF s.weeks = <<>> THEN 0 ELSE s.weeks[1].progress)

updateAllProgress(s) ==
    LET updatedWeeks ==
            [i \in 1..Len(s.weeks) |->
                [s.weeks[i] EXCEPT !.progress = calculateWeekProgress(s.weeks[i].courses)]]
    IN  CurriculumState(updatedWeeks, calculateOverallProgress(updatedWeeks))

\* state.weeks.filter(week => inBucket(week.progress)).length
CountWeeks(s, bucket) == Cardinality({i \in 1..Len(s.weeks) : s.weeks[i].progress \in bucket})

\* as getProgressStatistics, with a week of progress 0 counted in progress too
getProgressStatisticsFromZero(s) ==
    LET totalCourses ==
            Reduce([i \in 1..Len(s.weeks) |-> Len(s.weeks[i].courses)])
        completedCourses ==
            Reduce([i \in 1..Len(s.weeks) |-> CompletedCount(s.weeks[i].courses)])
    IN  [overallProgress |-> s.overallProgress,
         totalCourses |-> totalCourses,
         completedCourses |-> completedCourses,
         remainingCourses |-> totalCourses - completedCourses,
         totalWeeks |-> Len(s.weeks),
         completedWeeks |-> CountWeeks(s, {100}),
         inProgressWeeks |-> CountWeeks(s, 0..99),
         notStartedWeeks |-> CountWeeks(s, {0}),
         weekProgresses |->
            [i \in 1..Len(s.weeks) |->
                [title |-> s.weeks[i].title,
                 progress |-> s.weeks[i].progress,
                 totalCourses |-> Len(s.weeks[i].courses),
                 completedCourses |-> CompletedCount(s.weeks[i].courses),
                 weekId |-> s.weeks[i].id]]]

getProgressStatistics(s) ==
    LET totalCourses ==
            Reduce([i \in 1..Len(s.weeks) |-> Len(s.weeks[i].courses)])
        completedCourses ==
            Reduce([i \in 1..Len(s.weeks) |-> CompletedCount(s.weeks[i].courses)])
    IN  [overallProgress |-> s.overallProgress,
         totalCourses |-> totalCourses,
         completedCourses |-> completedCourses,
         remainingCourses |-> totalCourses - completedCourses,
         totalWeeks |-> Len(s.weeks),
         completedWeeks |-> CountWeeks(s, {100}),
         inProgressWeeks |-> CountWeeks(s, 1..99),
         notStartedWeeks |-> CountWeeks(s, {0}),
         weekProgresses |->
            [i \in 1..Len(s.weeks) |->
                [title |-> s.weeks[i].title,
                 progress |-> s.weeks[i].progress,
                 totalCourses |-> Len(s.weeks[i].courses),
                 completedCourses |-> CompletedCount(s.weeks[i].courses),
                 weekId |-> s.weeks[i].id]]]

(***************************************************************************)
(* State reducer (context/CurriculumContext.tsx)                           *)
(***************************************************************************)
Has(payload, field) == field \in DOMAIN payload

\* const { weekId, courseId, date, data } = action.payload: a missing
\* property reads as undefined; undefinedId is undefined read where the
\* model keeps strings, and equals no course id
undefinedId == "undefined"
weekIdOf(payload)   == IF Has(payload, "weekId") THEN payload.weekId ELSE undefined
courseIdOf(payload) == IF Has(payload, "courseId") THEN payload.courseId ELSE undefinedId
dateOf(payload)     == IF Has(payload, "date") THEN payload.date ELSE undefined

\* !weekId, !courseId, !date, !data: undefined, 0 and "" are falsy, every
\* Date object (the Invalid Date too) and every object is truthy
NoWeekId(payload)   == weekIdOf(payload) \in {undefined, 0}
NoCourseId(payload) == courseIdOf(payload) \in {undefinedId, ""}
NoDate(payload)     == dateOf(payload) = undefined
NoData(payload)     == ~Has(payload, "data")

\* state.weeks.map(week => week.id === weekId
\*     ? {...week, courses: week.courses.map(course =>
\*           course.id === courseId ? change(course) : course)}
\*     : week)
\* where changed[i][j] is change(course) for course j of week i
MapCourse(weeks, weekId, courseId, changed) ==
    [i \in 1..Len(weeks) |->
        IF weeks[i].id = weekId
        THEN [weeks[i] EXCEPT !.courses =
                 [j \in 1..Len(weeks[i].courses) |->
                     IF weeks[i].courses[j].id = courseId
                     THEN changed[i][j]
                     ELSE weeks[i].courses[j]]]
        ELSE weeks[i]]

\* the reducer returns the very object it was given (`return state`), so
\* React sees no state change
ReturnsInput(a) ==
    CASE a.type = "SET_START_DATE" ->
            NoWeekId(a.payload) \/ NoCourseId(a.payload) \/ NoDate(a.payload)
      [] a.type = "SET_END_DATE" ->
            NoWeekId(a.payload) \/ NoCourseId(a.payload) \/ NoDate(a.payload)
      [] a.type = "TOGGLE_COMPLETION" ->
            NoWeekId(a.payload) \/ NoCourseId(a.payload)
      [] a.type = "LOAD_DATA" -> NoData(a.payload)
      [] OTHER -> TRUE

\* a SET_START_DATE case that does not ask for the date
ReduceSetStartDateAnyDate(s, p) ==
    LET setStart ==
            [i \in 1..Len(s.weeks) |->
                [j \in 1..Len(s.weeks[i].courses) |->
                    LET course == s.weeks[i].courses[j]
                    IN  [course EXCEPT !.startDate = dateOf(p)]]]
    IN  IF NoWeekId(p) \/ NoCourseId(p) THEN s
        ELSE updateAllProgress(
                [s EXCEPT !.weeks = MapCourse(s.weeks, weekIdOf(p), courseIdOf(p), setStart)])

\* case 'SET_START_DATE'
ReduceSetStartDate(s, p) ==
    LET setStart ==
            [i \in 1..Len(s.weeks) |->
                [j \in 1..Len(s.weeks[i].courses) |->
                    LET course == s.weeks[i].courses[j]
                    IN  [course EXCEPT !.startDate = dateOf(p)]]]
    IN  IF NoWeekId(p) \/ NoCourseId(p) \/ NoDate(p) THEN s
        ELSE updateAllProgress(
                [s EXCEPT !.weeks = MapCourse(s.weeks, weekIdOf(p), courseIdOf(p), setStart)])

\* a SET_END_DATE case that keeps an end date from preceding the start
ReduceSetEndDateOrdered(s, p) ==
    LET setEnd ==
            [i \in 1..Len(s.weeks) |->
                [j \in 1..Len(s.weeks[i].courses) |->
                    LET course == s.weeks[i].courses[j]
                    IN  IF course.startDate # undefined /\ dateOf(p) < course.startDate THEN course
                        ELSE [course EXCEPT !.endDate = dateOf(p)]]]
    IN  IF NoWeekId(p) \/ NoCourseId(p) \/ NoDate(p) THEN s
        ELSE updateAllProgress(
                [s EXCEPT !.weeks = MapCourse(s.weeks, weekIdOf(p), courseIdOf(p), setEnd)])

\* case 'SET_END_DATE'
ReduceSetEndDate(s, p) ==
    LET setEnd ==
            [i \in 1..Len(s.weeks) |->
                [j \in 1..Len(s.weeks[i].courses) |->
                    LET course == s.weeks[i].courses[j]
                    IN  [course EXCEPT !.endDate = dateOf(p)]]]
    IN  IF NoWeekId(p) \/ NoCourseId(p) \/ NoDate(p) THEN s
        ELSE updateAllProgress(
                [s EXCEPT !.weeks = MapCourse(s.weeks, weekIdOf(p), courseIdOf(p), setEnd)])

\* a TOGGLE_COMPLETION case that marks the course completed
ReduceToggleCompletionMarks(s, p) ==
    LET toggle ==
            [i \in 1..Len(s.weeks) |->
                [j \in 1..Len(s.weeks[i].courses) |->
                    LET course == s.weeks[i].courses[j]
                    IN  [course EXCEPT !.completed = TRUE]]]
    IN  IF NoWeekId(p) \/ NoCourseId(p) THEN s
        ELSE updateAllProgress(
                [s EXCEPT !.weeks = MapCourse(s.weeks, weekIdOf(p), courseIdOf(p), toggle)])

\* case 'TOGGLE_COMPLETION'
ReduceToggleCompletion(s, p) ==
    LET toggle ==
            [i \in 1..Len(s.weeks) |->
                [j \in 1..Len(s.weeks[i].courses) |->
                    LET course == s.weeks[i].courses[j]
                    IN  [course EXCEPT !.completed = ~course.completed]]]
    IN  IF NoWeekId(p) \/ NoCourseId(p) THEN s
        ELSE updateAllProgress(
                [s EXCEPT !.weeks = MapCourse(s.weeks, weekIdOf(p), courseIdOf(p), toggle)])

\* a LOAD_DATA case that takes the data with the progress it carries
ReduceLoadDataVerbatim(s, p) ==
    IF NoData(p) THEN s ELSE p.data

\* case 'LOAD_DATA'
ReduceLoadData(s, p) ==
    IF NoData(p) THEN s ELSE updateAllProgress(p.data)

curriculumReducer(s, a) ==
    CASE a.type = "SET_START_DATE"    -> ReduceSetStartDate(s, a.payload)
      [] a.type = "SET_END_DATE"      -> ReduceSetEndDate(s, a.payload)
      [] a.type = "TOGGLE_COMPLETION" -> ReduceToggleCompletion(s, a.payload)
      [] a.type = "LOAD_DATA"         -> ReduceLoadData(s, a.payload)
      [] OTHER                        -> s

(***************************************************************************)
(* Inputs of the reducer                                                   *)
(***************************************************************************)
\* a week id and a course id that no tree of the model contains
MissingWeekId == NumWeeks + 2
MissingCourseId == "nope"

\* a tree that shares nothing with the catalog: one week of three courses,
\* two of them completed, carrying progress values that are not the
\* recomputed ones
OtherWeekId == NumWeeks + 1
OtherTree ==
    CurriculumState(
        <<Week(OtherWeekId, "other week",
               <<Course(CourseId(OtherWeekId, 1), "other 1", 1, 2, TRUE),
                 Course(CourseId(OtherWeekId, 2), "other 2", undefined, undefined, TRUE),
                 Course(CourseId(OtherWeekId, 3), "other 3", 2, undefined, FALSE)>>,
               10)>>,
        20)

\* the catalog as loadCurriculumState returns it: courses overlaid, every
\* progress still the seed's 0
SavedTree ==
    CurriculumState(
        [w \in 1..NumWeeks |->
            [initialCurriculumData[w] EXCEPT
                !.courses = [i \in DOMAIN @ |->
                    [@[i] EXCEPT !.completed = (w = 1),
                                 !.startDate = IF w = 1 THEN 2 ELSE undefined]]]],
        0)

\* trees with no courses: no week at all, and a week with an empty list
EmptyTree == CurriculumState(<<>>, 30)
EmptyWeekTree == CurriculumState(<<Week(1, "week 1", <<>>, 40)>>, 50)

\* one week of `courses` courses, the first `completed` of them completed
LargeWeek == [completed |-> 23, courses |-> 40]
LargeTree ==
    CurriculumState(
        <<Week(1, "week 1",
               [i \in 1..LargeWeek.courses |->
                   Course(CourseId(1, i), "course " \o CourseId(1, i),
                          undefined, undefined, i <= LargeWeek.completed)],
               0)>>,
        0)

LoadDataInputs == {getInitialCurriculumState, SavedTree, OtherTree,
                   EmptyTree, EmptyWeekTree, LargeTree}

\* payloads that name a week and a course: the first and the last catalog
\* course, the first course of OtherTree, a week no tree has, a course no
\* tree has
Target(weekId, courseId) == [weekId |-> weekId, courseId |-> courseId]
CatalogTargets ==
    {Target(1, CourseId(1, 1)),
     Target(NumWeeks, CourseId(NumWeeks, CoursesInWeek(NumWeeks)))}
MissingTargets ==
    {Target(MissingWeekId, CourseId(1, 1)), Target(1, MissingCourseId)}
TargetPayloads ==
    CatalogTargets \cup {Target(OtherWeekId, CourseId(OtherWeekId, 1))}
        \cup MissingTargets

\* payloads of the date actions: the first catalog course, the first course
\* of OtherTree and the missing ones, with every date
DatedPayloads ==
    {[weekId |-> t.weekId, courseId |-> t.courseId, date |-> d] :
        t \in {Target(1, CourseId(1, 1)),
               Target(OtherWeekId, CourseId(OtherWeekId, 1))} \cup MissingTargets,
        d \in Dates}

\* payloads with a required property missing or falsy
MalformedTargets ==
    {<<>>, [weekId |-> 1], [courseId |-> CourseId(1, 1)],
     [weekId |-> 0, courseId |-> CourseId(1, 1)],
     [weekId |-> 1, courseId |-> ""],
     [weekId |-> undefined, courseId |-> undefinedId]}
MalformedDated ==
    {[weekId |-> 1, courseId |-> CourseId(1, 1)],
     [weekId |-> 1, courseId |-> CourseId(1, 1), date |-> undefined],
     [weekId |-> 1, date |-> 1], [courseId |-> CourseId(1, 1), date |-> 1],
     [weekId |-> 0, courseId |-> CourseId(1, 1), date |-> 1],
     [weekId |-> 1, courseId |-> "", date |-> 1]}

Action(type, payload) == [payload |-> payload, type |-> type]
NoAction == Action("", <<>>)

\* the positions <<week index, course index>> of the courses of s
Positions(s) ==
    UNION {{<<i, j>> : j \in 1..Len(s.weeks[i].courses)} : i \in 1..Len(s.weeks)}

\* the positions the pair (weekId, courseId) addresses
Addressed(s, weekId, courseId) ==
    {x \in Positions(s) :
        s.weeks[x[1]].id = weekId /\ s.weeks[x[1]].courses[x[2]].id = courseId}

CourseAt(s, x) == s.weeks[x[1]].courses[x[2]]

(***************************************************************************)
(* JavaScript values that pass through JSON (utils/localStorage.ts).       *)
(* A value is [t |-> typeof, v |-> token, props |-> properties]: a scalar  *)
(* has no properties, an object has the token "".                          *)
(***************************************************************************)
JsValue(t, v, props) == [v |-> v, t |-> t, props |-> props]
JsUndefined  == JsValue("undefined", "undefined", <<>>)
JsNull       == JsValue("null", "null", <<>>)
JsString(x)  == JsValue("string", x, <<>>)
JsNumber(x)  == JsValue("number", x, <<>>)
JsBoolean(b) == JsValue("boolean", IF b THEN "true" ELSE "false", <<>>)
JsObject(props) == JsValue("object", "", props)

\* obj[key]: undefined when the object has no such property
Get(obj, key) == IF key \in DOMAIN obj.props THEN obj.props[key] ELSE JsUndefined

\* !x: undefined, null, false, 0 and "" are falsy
Falsy(x) ==
    \/ x.t \in {"undefined", "null"}
    \/ x.t = "boolean" /\ x.v = "false"
    \/ x.t = "number" /\ x.v = "0"
    \/ x.t = "string" /\ x.v = ""

\* typeof x === 'object' (true of null as well)
TypeofObject(x) == x.t \in {"object", "null"}

\* Date.prototype.toISOString of a valid date: day d of January 2024
toISOString(d) ==
    "2024-01-" \o (IF d < 10 THEN "0" ELSE "") \o ToString(d) \o "T00:00:00.000Z"

\* new Date(string): the date the string is the ISO form of, the Invalid
\* Date for any other string
NewDate(x) ==
    IF \E d \in Dates : toISOString(d) = x
    THEN CHOOSE d \in Dates : toISOString(d) = x
    ELSE InvalidDate

\* the text a localStorage item holds: JSON text is kept as the value it
\* denotes, "" and text that is not JSON are kept by kind; NoItem is the
\* null that getItem returns for a missing key
Text(kind, value) == [kind |-> kind, value |-> value]
NoItem      == Text("null", JsNull)
EmptyText   == Text("empty", JsNull)
InvalidJson == Text("invalid json", JsNull)

RECURSIVE DropUndefined(_)
\* JSON.stringify leaves out the properties whose value is undefined
DropUndefined(x) ==
    IF x.t # "object" THEN x
    ELSE JsObject([k \in {k \in DOMAIN x.props : x.props[k].t # "undefined"} |->
                      DropUndefined(x.props[k])])

JSONstringify(x) == Text("json", DropUndefined(x))

\* JSON.parse throws a SyntaxError on "" and on text that is not JSON
JSONparseThrows(text) == text.kind # "json"
JSONparse(text) == text.value

(***************************************************************************)
(* Persistence adapter (utils/localStorage.ts)                             *)
(***************************************************************************)
STORAGE_VERSION == "1.0.0"

\* new Date().toISOString() at the time of the save
Now == "2024-02-01T00:00:00.000Z"

validateStoredData(data) ==
    /\ ~Falsy(data) /\ TypeofObject(data)
    /\ ~Falsy(Get(data, "version"))
    /\ ~Falsy(Get(data, "lastUpdated"))
    /\ ~Falsy(Get(data, "curriculum"))
    /\ TypeofObject(Get(data, "curriculum"))
    /\ LET curriculum == Get(data, "curriculum")
       IN  \A weekId \in DOMAIN curriculum.props :
            LET weekData == curriculum.props[weekId]
            IN  /\ TypeofObject(weekData) /\ weekData.t # "null"
                /\ \A courseId \in DOMAIN weekData.props :
                    LET courseData == weekData.props[courseId]
                    IN  /\ TypeofObject(courseData) /\ courseData.t # "null"
                        /\ Get(courseData, "completed").t = "boolean"
                        /\ ~(/\ ~Falsy(Get(courseData, "startDate"))
                             /\ Get(courseData, "startDate").t # "string")
                        /\ ~(/\ ~Falsy(Get(courseData, "endDate"))
                             /\ Get(courseData, "endDate").t # "string")

\* course.startDate?.toISOString() throws a RangeError on the Invalid Date
ToStoredDataThrows(s) ==
    \E x \in Positions(s) :
        CourseAt(s, x).startDate = InvalidDate \/ CourseAt(s, x).endDate = InvalidDate

\* the last index at which the sequence holds an element with this key: a
\* later assignment to the same property replaces the earlier one
LastWith(keys, k) ==
    CHOOSE i \in 1..Len(keys) :
        keys[i] = k /\ \A j \in (i + 1)..Len(keys) : keys[j] # k

\* a conversion that leaves the end dates out of the record
curriculumStateToStoredDataNoEndDate(s) ==
    LET stored(course) ==
            JsObject([startDate |-> IF course.startDate = undefined THEN JsUndefined
                                    ELSE JsString(toISOString(course.startDate)),
                      endDate   |-> JsUndefined,
                      completed |-> JsBoolean(course.completed)])
        courses(week) ==
            JsObject([c \in {week.courses[j].id : j \in 1..Len(week.courses)} |->
                         stored(week.courses[CHOOSE j \in 1..Len(week.courses) :
                                                week.courses[j].id = c])])
    IN  JsObject([curriculum  |-> JsObject([w \in {ToString(s.weeks[i].id) :
                                                      i \in 1..Len(s.weeks)} |->
                                    courses(s.weeks[CHOOSE i \in 1..Len(s.weeks) :
                                                ToString(s.weeks[i].id) = w])]),
                  version     |-> JsString(STORAGE_VERSION),
                  lastUpdated |-> JsString(Now)])

curriculumStateToStoredData(s) ==
    LET weekKeys == [i \in 1..Len(s.weeks) |-> ToString(s.weeks[i].id)]
        courseKeys(week) == [j \in 1..Len(week.courses) |-> week.courses[j].id]
        optional(date) == IF date = undefined THEN JsUndefined
                          ELSE JsString(toISOString(date))
        stored(course) ==
            JsObject([startDate |-> optional(course.startDate),
                      endDate   |-> optional(course.endDate),
                      completed |-> JsBoolean(course.completed)])
        courses(week) ==
            JsObject([c \in {courseKeys(week)[j] : j \in 1..Len(week.courses)} |->
                         stored(week.courses[LastWith(courseKeys(week), c)])])
        curriculum ==
            JsObject([w \in {weekKeys[i] : i \in 1..Len(s.weeks)} |->
                         courses(s.weeks[LastWith(weekKeys, w)])])
    IN  JsObject([curriculum  |-> curriculum,
                  version     |-> JsString(STORAGE_VERSION),
                  lastUpdated |-> JsString(Now)])

\* a conversion that resets the courses the record has no entry for
storedDataToCurriculumStateReset(storedData, initialState) ==
    LET date(x) == IF Falsy(x) THEN undefined ELSE NewDate(x.v)
        reset(course) == Course(course.id, course.name, undefined, undefined, FALSE)
        updatedCourse(course, weekData) ==
            LET courseData == Get(weekData, course.id)
            IN  IF Falsy(courseData) THEN reset(course)
                ELSE [course EXCEPT
                        !.startDate = date(Get(courseData, "startDate")),
                        !.endDate   = date(Get(courseData, "endDate")),
                        !.completed = (Get(courseData, "completed").v = "true")]
        updatedWeek(week) ==
            LET weekData == Get(Get(storedData, "curriculum"), ToString(week.id))
            IN  [week EXCEPT
                    !.courses = [j \in 1..Len(week.courses) |->
                                    updatedCourse(week.courses[j], weekData)]]
    IN  CurriculumState([i \in 1..Len(initialState.weeks) |->
                            updatedWeek(initialState.weeks[i])],
                        0)

storedDataToCurriculumState(storedData, initialState) ==
    LET date(x) == IF Falsy(x) THEN undefined ELSE NewDate(x.v)
        updatedCourse(course, weekData) ==
            LET courseData == Get(weekData, course.id)
            IN  IF Falsy(courseData) THEN course
                ELSE [course EXCEPT
                        !.startDate = date(Get(courseData, "startDate")),
                        !.endDate   = date(Get(courseData, "endDate")),
                        !.completed = (Get(courseData, "completed").v = "true")]
        updatedWeek(week) ==
            LET weekData == Get(Get(storedData, "curriculum"), ToString(week.id))
            IN  IF Falsy(weekData) THEN week
                ELSE [week EXCEPT
                        !.courses = [j \in 1..Len(week.courses) |->
                                        updatedCourse(week.courses[j], weekData)]]
    IN  CurriculumState([i \in 1..Len(initialState.weeks) |->
                            updatedWeek(initialState.weeks[i])],
                        0)

\* the environment of one adapter call: whether the availability probe
\* succeeds, and how the first and the second setItem of the record end
\* ("ok", "quota" for a QuotaExceededError, "error" for any other error)
Env(probe, write1, write2) == [probe |-> probe, write1 |-> write1, write2 |-> write2]
Healthy == Env(TRUE, "ok", "ok")

\* what a call returns and does: its return value (`ok` for the boolean
\* results, `value` for the loaded state or null), the message it logs,
\* the localStorage calls it makes on the record key, in order, and the
\* item it leaves under the key
null == CurriculumState(<<>>, -1)
Outcome(ok, value, log, calls, item) ==
    [value |-> value, ok |-> ok, log |-> log, calls |-> calls, item |-> item]
NoOutcome == Outcome(FALSE, null, "", <<>>, NoItem)

\* a probe that reports the storage available whatever happens
isLocalStorageAvailableAlways(env) == TRUE

isLocalStorageAvailable(env) == env.probe

\* the message of an outcome that is an exception leaving the function
Uncaught == "Uncaught exception"

\* a save that retries after any failed write, not only a quota failure
saveCurriculumStateRetriesAlways(s, item, env) ==
    IF ~isLocalStorageAvailable(env)
    THEN Outcome(FALSE, null, "Cannot save curriculum state: localStorage not available",
                 <<>>, item)
    ELSE IF ToStoredDataThrows(s)
    THEN Outcome(FALSE, null, "Failed to save curriculum state:", <<>>, item)
    ELSE LET serializedData == JSONstringify(curriculumStateToStoredData(s))
         IN  CASE env.write1 = "ok" ->
                    Outcome(TRUE, null, "Curriculum state saved successfully",
                            <<"setItem">>, serializedData)
               [] env.write1 # "ok" /\ env.write2 = "ok" ->
                    Outcome(TRUE, null, "Curriculum state saved after clearing old data",
                            <<"setItem", "removeItem", "setItem">>, serializedData)
               [] OTHER ->
                    Outcome(FALSE, null, "Failed to save even after clearing storage:",
                            <<"setItem", "removeItem", "setItem">>, NoItem)

\* as saveCurriculumState, with the weeks of the record in the store kept
\* when the state has no week of that id
saveCurriculumStateMerges(s, item, env) ==
    IF ~isLocalStorageAvailable(env)
    THEN Outcome(FALSE, null, "Cannot save curriculum state: localStorage not available",
                 <<>>, item)
    ELSE IF ToStoredDataThrows(s)
    THEN Outcome(FALSE, null, "Failed to save curriculum state:", <<>>, item)
    ELSE LET storedData == curriculumStateToStoredData(s)
             written == Get(storedData, "curriculum").props
             kept == IF item.kind = "json" THEN Get(item.value, "curriculum").props ELSE <<>>
             merged == [storedData EXCEPT !.props.curriculum =
                            JsObject([w \in DOMAIN written \cup DOMAIN kept |->
                                         IF w \in DOMAIN written THEN written[w] ELSE kept[w]])]
             serializedData == JSONstringify(merged)
         IN  CASE env.write1 = "ok" ->
                    Outcome(TRUE, null, "Curriculum state saved successfully",
                            <<"setItem">>, serializedData)
               [] env.write1 = "quota" /\ env.write2 = "ok" ->
                    Outcome(TRUE, null, "Curriculum state saved after clearing old data",
                            <<"setItem", "removeItem", "setItem">>, serializedData)
               [] env.write1 = "quota" /\ env.write2 # "ok" ->
                    Outcome(FALSE, null, "Failed to save even after clearing storage:",
                            <<"setItem", "removeItem", "setItem">>, NoItem)
               [] OTHER ->
                    Outcome(FALSE, null, "Failed to save curriculum state:",
                            <<"setItem">>, item)

\* as saveCurriculumState, with the record removed after any failed write
saveCurriculumStateClearsOnFailure(s, item, env) ==
    IF ~isLocalStorageAvailable(env)
    THEN Outcome(FALSE, null, "Cannot save curriculum state: localStorage not available",
                 <<>>, item)
    ELSE IF ToStoredDataThrows(s)
    THEN Outcome(FALSE, null, "Failed to save curriculum state:", <<>>, item)
    ELSE LET serializedData == JSONstringify(curriculumStateToStoredData(s))
         IN  CASE env.write1 = "ok" ->
                    Outcome(TRUE, null, "Curriculum state saved successfully",
                            <<"setItem">>, serializedData)
               [] env.write1 = "quota" /\ env.write2 = "ok" ->
                    Outcome(TRUE, null, "Curriculum state saved after clearing old data",
                            <<"setItem", "removeItem", "setItem">>, serializedData)
               [] env.write1 = "quota" /\ env.write2 # "ok" ->
                    Outcome(FALSE, null, "Failed to save even after clearing storage:",
                            <<"setItem", "removeItem", "setItem">>, NoItem)
               [] OTHER ->
                    Outcome(FALSE, null, "Failed to save curriculum state:",
                            <<"setItem", "removeItem">>, NoItem)

saveCurriculumState(s, item, env) ==
    IF ~isLocalStorageAvailable(env)
    THEN Outcome(FALSE, null, "Cannot save curriculum state: localStorage not available",
                 <<>>, item)
    ELSE IF ToStoredDataThrows(s)
    THEN Outcome(FALSE, null, "Failed to save curriculum state:", <<>>, item)
    ELSE LET serializedData == JSONstringify(curriculumStateToStoredData(s))
         IN  CASE env.write1 = "ok" ->
                    Outcome(TRUE, null, "Curriculum state saved successfully",
                            <<"setItem">>, serializedData)
               [] env.write1 = "quota" /\ env.write2 = "ok" ->
                    Outcome(TRUE, null, "Curriculum state saved after clearing old data",
                            <<"setItem", "removeItem", "setItem">>, serializedData)
               [] env.write1 = "quota" /\ env.write2 # "ok" ->
                    Outcome(FALSE, null, "Failed to save even after clearing storage:",
                            <<"setItem", "removeItem", "setItem">>, NoItem)
               [] OTHER ->
                    Outcome(FALSE, null, "Failed to save curriculum state:",
                            <<"setItem">>, item)

\* a load that leaves a record of another version in the store
loadCurriculumStateKeepsOtherVersion(initialState, item, env) ==
    IF ~isLocalStorageAvailable(env)
    THEN Outcome(FALSE, null, "Cannot load curriculum state: localStorage not available",
                 <<>>, item)
    ELSE IF item = NoItem \/ item = EmptyText
    THEN Outcome(FALSE, null, "No saved curriculum state found", <<"getItem">>, item)
    ELSE IF JSONparseThrows(item)
    THEN Outcome(FALSE, null, "Failed to load curriculum state:",
                 <<"getItem", "removeItem">>, NoItem)
    ELSE IF ~validateStoredData(JSONparse(item))
    THEN Outcome(FALSE, null, "Invalid stored data format, using initial state",
                 <<"getItem", "removeItem">>, NoItem)
    ELSE IF Get(JSONparse(item), "version") # JsString(STORAGE_VERSION)
    THEN Outcome(FALSE, null, "Version mismatch", <<"getItem">>, item)
    ELSE Outcome(TRUE, storedDataToCurriculumState(JSONparse(item), initialState),
                 "Curriculum state loaded successfully", <<"getItem">>, item)

loadCurriculumState(initialState, item, env) ==
    IF ~isLocalStorageAvailable(env)
    THEN Outcome(FALSE, null, "Cannot load curriculum state: localStorage not available",
                 <<>>, item)
    ELSE IF item = NoItem \/ item = EmptyText
    THEN Outcome(FALSE, null, "No saved curriculum state found", <<"getItem">>, item)
    ELSE IF JSONparseThrows(item)
    THEN Outcome(FALSE, null, "Failed to load curriculum state:",
                 <<"getItem", "removeItem">>, NoItem)
    ELSE IF ~validateStoredData(JSONparse(item))
    THEN Outcome(FALSE, null, "Invalid stored data format, using initial state",
                 <<"getItem", "removeItem">>, NoItem)
    ELSE IF Get(JSONparse(item), "version") # JsString(STORAGE_VERSION)
    THEN Outcome(FALSE, null, "Version mismatch", <<"getItem", "removeItem">>, NoItem)
    ELSE Outcome(TRUE, storedDataToCurriculumState(JSONparse(item), initialState),
                 "Curriculum state loaded successfully", <<"getItem">>, item)

clearCurriculumState(item, env) ==
    IF ~isLocalStorageAvailable(env)
    THEN Outcome(FALSE, null, "Cannot clear curriculum state: localStorage not available",
                 <<>>, item)
    ELSE Outcome(TRUE, null, "Curriculum state cleared successfully",
                 <<"removeItem">>, NoItem)

\* the outcome's ok is hasData; parsedData.lastUpdated throws a TypeError
\* when the text parses to null
getStorageInfo(item, env) ==
    IF ~isLocalStorageAvailable(env) THEN Outcome(FALSE, null, "", <<>>, item)
    ELSE IF item = NoItem \/ item = EmptyText
    THEN Outcome(FALSE, null, "", <<"getItem">>, item)
    ELSE IF JSONparseThrows(item) \/ JSONparse(item).t = "null"
    THEN Outcome(FALSE, null, "Failed to get storage info:", <<"getItem">>, item)
    ELSE Outcome(TRUE, null, "", <<"getItem">>, item)

\* the argument of an adapter call and the environment it ran in
Call(s, env) == [state |-> s, env |-> env]
NoCall == Call(null, Healthy)

(***************************************************************************)
(* SpecReducer: the reducer driven by arbitrary actions from the seed      *)
(* state.  `action` is the last action dispatched and `prev` the state     *)
(* it was applied to.                                                      *)
(***************************************************************************)
InitReducerVars ==
    /\ store = NoItem /\ faulty = FALSE /\ op = "init" /\ action = NoAction
    /\ prevStore = NoItem /\ ret = NoOutcome /\ arg = NoCall

InitReducer ==
    /\ state = getInitialCurriculumState
    /\ prev = state
    /\ InitReducerVars

Dispatch(a) ==
    /\ state' = curriculumReducer(state, a)
    /\ prev' = state
    /\ action' = a
    /\ op' = "dispatch"
    /\ UNCHANGED <<store, faulty, prevStore, ret, arg>>

SetStartDate ==
    \E p \in DatedPayloads \cup MalformedDated :
        /\ Dispatch(Action("SET_START_DATE", p))

SetEndDate ==
    \E p \in DatedPayloads \cup MalformedDated :
        /\ Dispatch(Action("SET_END_DATE", p))

ToggleCompletion ==
    \E p \in TargetPayloads \cup MalformedTargets :
        /\ Dispatch(Action("TOGGLE_COMPLETION", p))

LoadData ==
    \/ \E d \in LoadDataInputs :
        /\ Dispatch(Action("LOAD_DATA", [data |-> d]))
    \/ /\ Dispatch(Action("LOAD_DATA", <<>>))

UnknownAction ==
    \E p \in {<<>>, [weekId |-> 1, courseId |-> CourseId(1, 1), date |-> 1]} :
        /\ Dispatch(Action("UNKNOWN_ACTION", p))

NextReducer ==
    \/ SetStartDate
    \/ SetEndDate
    \/ ToggleCompletion
    \/ LoadData
    \/ UnknownAction

SpecReducer == InitReducer /\ [][NextReducer]_vars

\* the reducer as a pure function: the same actions, applied to an
\* arbitrary CurriculumState, the progress fields of which need not be the
\* recomputed ones
InitReducerAny ==
    /\ state \in LoadDataInputs
    /\ prev = state
    /\ InitReducerVars

SpecReducerAny == InitReducerAny /\ [][NextReducer]_vars

(***************************************************************************)
(* Inputs of the persistence adapter                                       *)
(***************************************************************************)
StoredCourse(startDate, endDate, completed) ==
    JsObject([startDate |-> startDate, endDate |-> endDate, completed |-> completed])
StoredRecord(version, curriculum) ==
    JsObject([curriculum |-> curriculum, version |-> version,
              lastUpdated |-> JsString(Now)])

\* a well-formed record that covers the catalog in part and goes beyond
\* it: an entry for course 1-1, none for the other catalog courses, an
\* entry for a course and an entry for a week the catalog does not have
PartialRecord ==
    StoredRecord(JsString(STORAGE_VERSION),
        JsObject([k \in {"1", ToString(MissingWeekId)} |->
            IF k = "1"
            THEN JsObject([c \in {CourseId(1, 1), MissingCourseId} |->
                    IF c = MissingCourseId
                    THEN DropUndefined(StoredCourse(JsUndefined, JsUndefined, JsBoolean(TRUE)))
                    ELSE DropUndefined(StoredCourse(JsString(toISOString(1)), JsUndefined,
                                                    JsBoolean(TRUE)))])
            ELSE JsObject([c \in {CourseId(MissingWeekId, 1)} |->
                    StoredCourse(JsString(toISOString(1)), JsString(toISOString(2)),
                                 JsBoolean(TRUE))])]))

\* a well-formed record without any week
EmptyRecord == StoredRecord(JsString(STORAGE_VERSION), JsObject(<<>>))

OneCourseRecord(version, course) ==
    StoredRecord(version,
                 JsObject([k \in {"1"} |-> JsObject([c \in {CourseId(1, 1)} |-> course])]))

\* records that validateStoredData rejects
InvalidRecords ==
    {JsNull, JsString("text"), JsObject(<<>>),
     JsObject([curriculum |-> JsObject(<<>>), lastUpdated |-> JsString(Now)]),
     StoredRecord(JsString(STORAGE_VERSION), JsString("invalid structure")),
     StoredRecord(JsString(STORAGE_VERSION), JsObject([k \in {"1"} |-> JsNumber("1")])),
     OneCourseRecord(JsString(STORAGE_VERSION), JsNull),
     OneCourseRecord(JsString(STORAGE_VERSION),
                     JsObject([startDate |-> JsString(toISOString(1))])),
     OneCourseRecord(JsString(STORAGE_VERSION),
                     StoredCourse(JsNumber("5"), JsNull, JsBoolean(TRUE))),
     OneCourseRecord(JsString(STORAGE_VERSION),
                     StoredCourse(JsNull, JsBoolean(TRUE), JsBoolean(TRUE))),
     OneCourseRecord(JsString(STORAGE_VERSION),
                     StoredCourse(JsNull, JsNull, JsString("true")))}

\* records of another schema version
OtherVersionRecords ==
    {OneCourseRecord(JsString("2.0.0"),
                     StoredCourse(JsNull, JsNull, JsBoolean(TRUE))),
     StoredRecord(JsNumber("1"), JsObject(<<>>))}

\* records that validateStoredData accepts although a date is not an ISO
\* string: a falsy value of another type, and text that is no date
OddDateRecords ==
    {OneCourseRecord(JsString(STORAGE_VERSION),
                     StoredCourse(JsNumber("0"), JsBoolean(FALSE), JsBoolean(TRUE))),
     OneCourseRecord(JsString(STORAGE_VERSION),
                     StoredCourse(JsString("not a date"), JsNull, JsBoolean(FALSE)))}

StoredInputs ==
    {NoItem, EmptyText, InvalidJson}
        \cup {Text("json", r) : r \in InvalidRecords \cup OtherVersionRecords
                                        \cup OddDateRecords
                                        \cup {PartialRecord, EmptyRecord}}

\* the catalog with every combination of completion flag and dates on
\* course 1-1
CatalogStates ==
    {CurriculumState(
        [initialCurriculumData EXCEPT
            ![1].courses[1] = [@ EXCEPT !.completed = done, !.startDate = dates[1],
                                        !.endDate = dates[2]]],
        0) :
        done \in BOOLEAN,
        dates \in (Dates \cup {undefined}) \X (Dates \cup {undefined})}

\* the catalog with every course completed and dated
FilledCatalog ==
    CurriculumState(
        [w \in 1..NumWeeks |->
            [initialCurriculumData[w] EXCEPT
                !.courses = [i \in DOMAIN @ |->
                    [@[i] EXCEPT !.completed = TRUE, !.startDate = 1,
                                 !.endDate = MaxDate]]]],
        0)

\* a catalog state holding an Invalid Date
InvalidDateState ==
    CurriculumState(
        [initialCurriculumData EXCEPT ![1].courses[1].startDate = InvalidDate], 0)

\* a week in which two courses carry the same id
DuplicateTree ==
    CurriculumState(
        <<Week(OtherWeekId, "other week",
               <<Course(CourseId(OtherWeekId, 1), "first", 1, undefined, TRUE),
                 Course(CourseId(OtherWeekId, 1), "second", undefined, 2, FALSE)>>,
               0)>>,
        0)

SaveInputs ==
    CatalogStates \cup {FilledCatalog, OtherTree, EmptyTree, EmptyWeekTree,
                        InvalidDateState, DuplicateTree}

SeedInputs ==
    {getInitialCurriculumState, FilledCatalog, OtherTree, EmptyTree, DuplicateTree}

Environments ==
    {Healthy, Env(FALSE, "ok", "ok"), Env(TRUE, "error", "ok"),
     Env(TRUE, "quota", "ok"), Env(TRUE, "quota", "error")}

\* the environments a call may meet
Envs == IF faulty THEN Environments ELSE {Healthy}

\* the environments that differ for a call that writes no record
ReadEnvs == {env \in Envs : env.write1 = "ok" /\ env.write2 = "ok"}

(***************************************************************************)
(* SpecStorage: the persistence adapter as a library.  The store starts    *)
(* with any item, the calls come in any order with any argument, and the   *)
(* storage may fail.  `ret` is the outcome of the last call, `arg` its     *)
(* argument and environment, `prevStore` the item before it, and `prev`    *)
(* the state whose record the last successful save left in the store       *)
(* (null once the item has been removed).                                  *)
(***************************************************************************)
InitStorage ==
    /\ store \in StoredInputs
    /\ faulty = TRUE
    /\ state = getInitialCurriculumState
    /\ prev = null
    /\ op = "init" /\ action = NoAction
    /\ prevStore = store /\ ret = NoOutcome /\ arg = NoCall

Called(name, s, env, outcome) ==
    /\ op' = name
    /\ arg' = Call(s, env)
    /\ ret' = outcome
    /\ prevStore' = store
    /\ store' = outcome.item
    /\ prev' = IF name = "save" /\ outcome.ok THEN s
               ELSE IF outcome.item = store THEN prev ELSE null
    /\ UNCHANGED <<state, faulty, action>>

Save == \E s \in SaveInputs, env \in Envs :
            /\ Called("save", s, env, saveCurriculumState(s, store, env))

Load == \E s \in SeedInputs, env \in ReadEnvs :
            /\ Called("load", s, env, loadCurriculumState(s, store, env))

Clear == \E env \in ReadEnvs :
            /\ Called("clear", null, env, clearCurriculumState(store, env))

Info == \E env \in ReadEnvs :
            /\ Called("info", null, env, getStorageInfo(store, env))

NextStorage == Save \/ Load \/ Clear \/ Info

SpecStorage == InitStorage /\ [][NextStorage]_vars

(***************************************************************************)
(* Date validator (utils/dateValidation.ts).  A date argument is a date,   *)
(* the Invalid Date, undefined or null; the clock of a call is the local   *)
(* midnight of today and the current instant, both on the scale of Dates.  *)
(* An error message is named by its key in DEFAULT_ERROR_MESSAGES.         *)
(***************************************************************************)
nullDate == -2

DateValidationResult(isValid, errorMessage, errorType) ==
    [isValid |-> isValid, errorMessage |-> errorMessage, errorType |-> errorType]
ValidResult == DateValidationResult(TRUE, "", "undefined")
Failure(errorMessage, errorType) == DateValidationResult(FALSE, errorMessage, errorType)

DateValidationOptions(required, minDate, maxDate, warnFutureDates, requireFutureDates, disallowFutureDates) ==
    [required |-> required, minDate |-> minDate, maxDate |-> maxDate,
     warnFutureDates |-> warnFutureDates, requireFutureDates |-> requireFutureDates,
     disallowFutureDates |-> disallowFutureDates]
NoOptions == DateValidationOptions(FALSE, undefined, undefined, FALSE, FALSE, FALSE)

Clock(today, now) == [today |-> today, now |-> now]
getTodayAtMidnight(clock) == clock.today

\* !date
NotProvided(date) == date \in {undefined, nullDate}
\* isNaN(date.getTime())
IsNaNTime(date) == date = InvalidDate
\* a > b on Date objects: false when either time value is NaN
After(a, b) == a \in Dates /\ b \in Dates /\ a > b

\* as validateDate, with the required check taken for an unparseable date too
validateDateRequiredFirst(date, options, clock) ==
    IF options.required /\ (NotProvided(date) \/ IsNaNTime(date))
    THEN Failure("required", "REQUIRED_FIELD")
    ELSE IF NotProvided(date) THEN ValidResult
    ELSE IF IsNaNTime(date) THEN Failure("invalidFormat", "INVALID_FORMAT")
    ELSE IF ~NotProvided(options.minDate) /\ After(options.minDate, date)
    THEN Failure("beforeMin", "INVALID_RANGE")
    ELSE IF ~NotProvided(options.maxDate) /\ After(date, options.maxDate)
    THEN Failure("afterMax", "INVALID_RANGE")
    ELSE IF options.disallowFutureDates /\ After(date, getTodayAtMidnight(clock))
    THEN Failure("futureDateNotAllowed", "FUTURE_DATE")
    ELSE IF options.requireFutureDates /\ ~After(date, getTodayAtMidnight(clock))
    THEN Failure("pastDate", "FUTURE_DATE")
    ELSE IF options.warnFutureDates /\ After(date, clock.now)
    THEN Failure("futureDate", "FUTURE_DATE")
    ELSE ValidResult

validateDate(date, options, clock) ==
    IF options.required /\ NotProvided(date) THEN Failure("required", "REQUIRED_FIELD")
    ELSE IF NotProvided(date) THEN ValidResult
    ELSE IF IsNaNTime(date) THEN Failure("invalidFormat", "INVALID_FORMAT")
    ELSE IF ~NotProvided(options.minDate) /\ After(options.minDate, date)
    THEN Failure("beforeMin", "INVALID_RANGE")
    ELSE IF ~NotProvided(options.maxDate) /\ After(date, options.maxDate)
    THEN Failure("afterMax", "INVALID_RANGE")
    ELSE IF options.disallowFutureDates /\ After(date, getTodayAtMidnight(clock))
    THEN Failure("futureDateNotAllowed", "FUTURE_DATE")
    ELSE IF options.requireFutureDates /\ ~After(date, getTodayAtMidnight(clock))
    THEN Failure("pastDate", "FUTURE_DATE")
    ELSE IF options.warnFutureDates /\ After(date, clock.now)
    THEN Failure("futureDate", "FUTURE_DATE")
    ELSE ValidResult

\* as validateDateRange, with equal dates rejected
validateDateRangeStrict(startDate, endDate) ==
    IF NotProvided(startDate) \/ NotProvided(endDate) THEN ValidResult
    ELSE IF IsNaNTime(startDate) \/ IsNaNTime(endDate)
    THEN Failure("invalidFormat", "INVALID_FORMAT")
    ELSE IF ~After(endDate, startDate) THEN Failure("startAfterEnd", "START_AFTER_END")
    ELSE ValidResult

validateDateRange(startDate, endDate) ==
    IF NotProvided(startDate) \/ NotProvided(endDate) THEN ValidResult
    ELSE IF IsNaNTime(startDate) \/ IsNaNTime(endDate)
    THEN Failure("invalidFormat", "INVALID_FORMAT")
    ELSE IF After(startDate, endDate) THEN Failure("startAfterEnd", "START_AFTER_END")
    ELSE ValidResult

\* as validateCourseDate, with the pair always taken as (date, otherDate)
validateCourseDateUnordered(date, otherDate, isStartDate, options, clock) ==
    LET singleDateValidation == validateDate(date, options, clock)
    IN  IF ~singleDateValidation.isValid THEN singleDateValidation
        ELSE IF ~NotProvided(date) /\ ~NotProvided(otherDate)
                /\ ~validateDateRange(date, otherDate).isValid
        THEN validateDateRange(date, otherDate)
        ELSE ValidResult

validateCourseDate(date, otherDate, isStartDate, options, clock) ==
    LET singleDateValidation == validateDate(date, options, clock)
        startDate == IF isStartDate THEN date ELSE otherDate
        endDate == IF isStartDate THEN otherDate ELSE date
    IN  IF ~singleDateValidation.isValid THEN singleDateValidation
        ELSE IF ~NotProvided(date) /\ ~NotProvided(otherDate)
                /\ ~validateDateRange(startDate, endDate).isValid
        THEN validateDateRange(startDate, endDate)
        ELSE ValidResult

(***************************************************************************)
(* SpecValidator: one call of a validator function on any arguments.       *)
(* `arg` holds the arguments and the clock, `ret` the result.              *)
(***************************************************************************)
DateArguments == Dates \cup {InvalidDate, undefined, nullDate}
OptionalDates == Dates \cup {undefined}
Clocks == {Clock(today, now) : today \in Dates, now \in Dates} \ {c \in
              {Clock(today, now) : today \in Dates, now \in Dates} : c.today > c.now}

OptionInputs ==
    {DateValidationOptions(required, minDate, maxDate, warn, require, disallow) :
        required \in BOOLEAN, minDate \in OptionalDates, maxDate \in OptionalDates,
        warn \in BOOLEAN, require \in BOOLEAN, disallow \in BOOLEAN}

\* the options with at most one policy set
SingleOptions ==
    {o \in OptionInputs :
        Cardinality({k \in {"required", "minDate", "maxDate", "warnFutureDates",
                            "requireFutureDates", "disallowFutureDates"} :
                        o[k] # NoOptions[k]}) <= 1}

Validation(date, otherDate, isStartDate, options, clock) ==
    [date |-> date, clock |-> clock, options |-> options, otherDate |-> otherDate,
     isStartDate |-> isStartDate]

InitValidator ==
    /\ state = getInitialCurriculumState
    /\ prev = state
    /\ store = NoItem /\ faulty = FALSE /\ op = "init" /\ action = NoAction
    /\ prevStore = NoItem
    /\ ret = ValidResult
    /\ arg = Validation(undefined, undefined, TRUE, NoOptions, Clock(1, 1))

Validated(name, arguments, result) ==
    /\ op = "init"
    /\ op' = name
    /\ arg' = arguments
    /\ ret' = result
    /\ UNCHANGED <<state, store, faulty, action, prev, prevStore>>

ValidateDate ==
    \E date \in DateArguments, options \in OptionInputs, clock \in Clocks :
        /\ Validated("validateDate",
                     Validation(date, undefined, TRUE, options, clock),
                     validateDate(date, options, clock))

ValidateDateRange ==
    \E startDate \in DateArguments, endDate \in DateArguments :
        /\ Validated("validateDateRange",
                     Validation(startDate, endDate, TRUE, NoOptions, Clock(1, 1)),
                     validateDateRange(startDate, endDate))

ValidateCourseDate ==
    \E date \in DateArguments, otherDate \in DateArguments, isStartDate \in BOOLEAN,
       options \in SingleOptions, clock \in Clocks :
        /\ Validated("validateCourseDate",
                     Validation(date, otherDate, isStartDate, options, clock),
                     validateCourseDate(date, otherDate, isStartDate, options, clock))

NextValidator == ValidateDate \/ ValidateDateRange \/ ValidateCourseDate

SpecValidator == InitValidator /\ [][NextValidator]_vars

(***************************************************************************)
(* Spec: the session controller (CurriculumProvider).  The provider is     *)
(* constructed on the seed state; mounting it runs the load effect, which  *)
(* dispatches LOAD_DATA when a state was loaded, and the save effect; a    *)
(* dispatch that changes the state object runs the save effect again; a    *)
(* page reload constructs and mounts a new provider on the same store.     *)
(* `prev` is the state before the step, `ret` the outcome of the step's    *)
(* load (mount, reload) or save (dispatch) and `arg` its argument.         *)
(***************************************************************************)
\* state.weeks.some(week => week.courses.some(course =>
\*     course.completed || course.startDate || course.endDate))
HasMarks(s) ==
    \E x \in Positions(s) :
        \/ CourseAt(s, x).completed
        \/ CourseAt(s, x).startDate # undefined
        \/ CourseAt(s, x).endDate # undefined

\* the save effect on state s
SaveEffect(s, item, env) ==
    IF HasMarks(s) THEN saveCurriculumState(s, item, env)
    ELSE Outcome(FALSE, null, "", <<>>, item)

\* the effects of a mount: the load effect, the save effect on the seed,
\* and after a LOAD_DATA the save effect on the loaded state
Mounted(item, envLoad, envSave) ==
    LET seed   == getInitialCurriculumState
        loaded == loadCurriculumState(seed, item, envLoad)
        first  == SaveEffect(seed, loaded.item, envSave)
        next   == IF loaded.value = null THEN seed
                  ELSE curriculumReducer(seed, Action("LOAD_DATA", [data |-> loaded.value]))
        second == IF loaded.value = null THEN first
                  ELSE SaveEffect(next, first.item, envSave)
    IN  [state |-> next, store |-> second.item, loaded |-> loaded]

\* what an earlier session may have left in the store
SessionStores == {NoItem, InvalidJson, Text("json", PartialRecord)}

Init ==
    /\ state = getInitialCurriculumState
    /\ store \in SessionStores
    /\ faulty = FALSE
    /\ prev = state
    /\ op = "init" /\ action = NoAction
    /\ prevStore = store /\ ret = NoOutcome /\ arg = NoCall

\* as Start, with the state in memory kept when nothing was loaded
StartKeepsState(name) ==
    \E envLoad \in ReadEnvs, envSave \in Envs :
        LET m == Mounted(store, envLoad, envSave)
        IN  /\ op' = name
            /\ state' = IF m.loaded.value = null THEN state ELSE m.state
            /\ store' = m.store
            /\ prev' = state
            /\ prevStore' = store
            /\ ret' = m.loaded
            /\ arg' = Call(getInitialCurriculumState, envLoad)
            /\ action' = NoAction
            /\ UNCHANGED faulty

Start(name) ==
    \E envLoad \in ReadEnvs, envSave \in Envs :
        LET m == Mounted(store, envLoad, envSave)
        IN  /\ op' = name
            /\ state' = m.state
            /\ store' = m.store
            /\ prev' = state
            /\ prevStore' = store
            /\ ret' = m.loaded
            /\ arg' = Call(getInitialCurriculumState, envLoad)
            /\ action' = NoAction
            /\ UNCHANGED faulty

Mount == op = "init" /\ Start("mount")

Reload == op # "init" /\ Start("reload")

\* as ProviderDispatch, with the state put back when the save fails
ProviderDispatchReverts(a) ==
    \E env \in Envs :
        LET next  == curriculumReducer(state, a)
            saved == IF ReturnsInput(a) THEN Outcome(FALSE, null, "", <<>>, store)
                     ELSE SaveEffect(next, store, env)
        IN  /\ op # "init"
            /\ op' = "dispatch"
            /\ action' = a
            /\ state' = IF saved.ok \/ saved.log = "" THEN next ELSE state
            /\ store' = saved.item
            /\ prev' = state
            /\ prevStore' = store
            /\ ret' = saved
            /\ arg' = Call(next, env)
            /\ UNCHANGED faulty

ProviderDispatch(a) ==
    \E env \in Envs :
        LET next  == curriculumReducer(state, a)
            saved == IF ReturnsInput(a) THEN Outcome(FALSE, null, "", <<>>, store)
                     ELSE SaveEffect(next, store, env)
        IN  /\ op # "init"
            /\ op' = "dispatch"
            /\ action' = a
            /\ state' = next
            /\ store' = saved.item
            /\ prev' = state
            /\ prevStore' = store
            /\ ret' = saved
            /\ arg' = Call(next, env)
            /\ UNCHANGED faulty

UserSetStartDate ==
    \E p \in DatedPayloads \cup MalformedDated :
        /\ ProviderDispatch(Action("SET_START_DATE", p))

UserSetEndDate ==
    \E p \in DatedPayloads \cup MalformedDated :
        /\ ProviderDispatch(Action("SET_END_DATE", p))

UserToggleCompletion ==
    \E p \in TargetPayloads \cup MalformedTargets :
        /\ ProviderDispatch(Action("TOGGLE_COMPLETION", p))

Next ==
    \/ Mount
    \/ UserSetStartDate
    \/ UserSetEndDate
    \/ UserToggleCompletion
    \/ Reload

Spec == Init /\ [][Next]_vars

(***************************************************************************)
(* SpecFresh: one session of the controller on a store without a record:   *)
(* the provider is mounted and actions are dispatched, the page is not     *)
(* reloaded.                                                               *)
(***************************************************************************)
InitFresh ==
    /\ state = getInitialCurriculumState
    /\ store = NoItem
    /\ faulty = FALSE
    /\ prev = state
    /\ op = "init" /\ action = NoAction
    /\ prevStore = store /\ ret = NoOutcome /\ arg = NoCall

NextFresh ==
    \/ Mount
    \/ UserSetStartDate
    \/ UserSetEndDate
    \/ UserToggleCompletion

SpecFresh == InitFresh /\ [][NextFresh]_vars

(***************************************************************************)
(* SpecFaulty: the session controller on a storage that may fail: each     *)
(* load and each save meets any of the environments.  The edits are those  *)
(* of FaultyEdits.                                                         *)
(***************************************************************************)
InitFaulty ==
    /\ state = getInitialCurriculumState
    /\ store \in SessionStores
    /\ faulty = TRUE
    /\ prev = state
    /\ op = "init" /\ action = NoAction
    /\ prevStore = store /\ ret = NoOutcome /\ arg = NoCall

\* the edits made under faults: both catalog targets toggled, the first
\* catalog course given a start date
FaultyEdits ==
    {Action("TOGGLE_COMPLETION", t) : t \in CatalogTargets}
        \cup {Action("SET_START_DATE",
                     [weekId |-> 1, courseId |-> CourseId(1, 1), date |-> MaxDate])}

EditUnderFaults ==
    \E a \in FaultyEdits :
        /\ ProviderDispatch(a)

NextFaulty ==
    \/ Mount
    \/ EditUnderFaults
    \/ Reload

SpecFaulty == InitFaulty /\ [][NextFaulty]_vars

(***************************************************************************)
(* SpecCourseRow: the date pickers of a course row (components/CourseRow,  *)
(* the handlers of CourseCard are the same).  A handler validates the      *)
(* picked date against the course as rendered, and dispatches to the       *)
(* provider when both validations pass.  `ret` is the validation message   *)
(* shown and the action dispatched, NoAction when none was.                *)
(***************************************************************************)
startDateValidationOptions ==
    DateValidationOptions(FALSE, undefined, undefined, FALSE, FALSE, TRUE)
endDateValidationOptions == NoOptions

\* validateDates(startDate, endDate)
validateDates(startDate, endDate) == validateDateRange(startDate, endDate).errorMessage

Handled(error, dispatched) == [error |-> error, dispatched |-> dispatched]

handleStartDateChange(weekId, course, date, clock) ==
    LET startDateValidation ==
            validateCourseDate(date, course.endDate, TRUE, startDateValidationOptions, clock)
        rangeError == validateDates(date, course.endDate)
    IN  IF ~startDateValidation.isValid
        THEN Handled(startDateValidation.errorMessage, NoAction)
        ELSE IF rangeError # "" THEN Handled(rangeError, NoAction)
        ELSE Handled("", Action("SET_START_DATE",
                                [weekId |-> weekId, courseId |-> course.id, date |-> date]))

\* as handleEndDateChange, with the picked date validated as a start date
handleEndDateChangeAsStart(weekId, course, date, clock) ==
    LET endDateValidation ==
            validateCourseDate(date, course.startDate, TRUE, endDateValidationOptions, clock)
        rangeError == validateDates(date, course.startDate)
    IN  IF ~endDateValidation.isValid
        THEN Handled(endDateValidation.errorMessage, NoAction)
        ELSE IF rangeError # "" THEN Handled(rangeError, NoAction)
        ELSE Handled("", Action("SET_END_DATE",
                                [weekId |-> weekId, courseId |-> course.id, date |-> date]))

handleEndDateChange(weekId, course, date, clock) ==
    LET endDateValidation ==
            validateCourseDate(date, course.startDate, FALSE, endDateValidationOptions, clock)
        rangeError == validateDates(course.startDate, date)
    IN  IF ~endDateValidation.isValid
        THEN Handled(endDateValidation.errorMessage, NoAction)
        ELSE IF rangeError # "" THEN Handled(rangeError, NoAction)
        ELSE Handled("", Action("SET_END_DATE",
                                [weekId |-> weekId, courseId |-> course.id, date |-> date]))

\* what a date picker hands to its handler
PickedDates == Dates \cup {InvalidDate, undefined}

\* the rows edited: those of the first and of the last catalog course
Rows(s) ==
    {x \in Positions(s) : Target(s.weeks[x[1]].id, CourseAt(s, x).id) \in CatalogTargets}

InitCourseRow ==
    /\ state = getInitialCurriculumState
    /\ store = NoItem
    /\ faulty = FALSE
    /\ prev = state
    /\ op = "init" /\ action = NoAction
    /\ prevStore = store /\ ret = Handled("", NoAction) /\ arg = NoCall

\* the handler has returned `handled`; its dispatch runs the reducer and
\* then the save effect
RowEdit(name, handled) ==
    LET next == IF handled.dispatched = NoAction THEN state
                ELSE curriculumReducer(state, handled.dispatched)
        saved == IF handled.dispatched = NoAction \/ ReturnsInput(handled.dispatched)
                 THEN Outcome(FALSE, null, "", <<>>, store)
                 ELSE SaveEffect(next, store, Healthy)
    IN  /\ op' = name
        /\ action' = handled.dispatched
        /\ state' = next
        /\ store' = saved.item
        /\ prev' = state
        /\ prevStore' = store
        /\ ret' = handled
        /\ UNCHANGED <<faulty, arg>>

StartDateChange ==
    \E x \in Rows(state), date \in PickedDates, clock \in Clocks :
        /\ RowEdit("handleStartDateChange",
                   handleStartDateChange(state.weeks[x[1]].id, CourseAt(state, x), date, clock))

EndDateChange ==
    \E x \in Rows(state), date \in PickedDates, clock \in Clocks :
        /\ RowEdit("handleEndDateChange",
                   handleEndDateChange(state.weeks[x[1]].id, CourseAt(state, x), date, clock))

NextCourseRow == StartDateChange \/ EndDateChange

SpecCourseRow == InitCourseRow /\ [][NextCourseRow]_vars

(***************************************************************************)
(* SpecRowEdits: a course row with its two date pickers and its checkbox.  *)
(* The text of a date input goes through the picker's handleDateChange,    *)
(* which calls the row's handler or not; the checkbox dispatches a toggle. *)
(***************************************************************************)
\* the value of a date input: empty, not of the form YYYY-MM-DD, of that
\* form without being a day of the calendar, or the text of the day `day`
InputValue(text, day) == [text |-> text, day |-> day]
InputValues ==
    {InputValue("", InvalidDate), InputValue("text", InvalidDate),
     InputValue("noSuchDay", InvalidDate)}
        \cup {InputValue("date", day) : day \in Dates}

\* new Date(dateString + 'T00:00:00')
NewDateAtMidnight(dateString) ==
    IF dateString.text = "date" THEN dateString.day ELSE InvalidDate

isValidDateString(dateString) ==
    IF dateString.text = "" THEN FALSE
    ELSE IF dateString.text = "text" THEN FALSE
    ELSE ~IsNaNTime(NewDateAtMidnight(dateString))

parseDateFromInput(dateString) ==
    IF dateString.text = "" THEN undefined
    ELSE IF IsNaNTime(NewDateAtMidnight(dateString)) THEN undefined
    ELSE NewDateAtMidnight(dateString)

\* what handleDateChange did: the error it shows, whether it called
\* onChange, and with which date
Picked(error, called, date) == [date |-> date, error |-> error, called |-> called]

handleDateChange(disabled, inputValue, options, clock) ==
    LET parsedDate == parseDateFromInput(inputValue)
    IN  IF disabled THEN Picked("", FALSE, undefined)
        ELSE IF inputValue.text = ""
        THEN Picked(validateDate(undefined, options, clock).errorMessage, TRUE, undefined)
        ELSE IF ~isValidDateString(inputValue) THEN Picked("invalidFormat", FALSE, undefined)
        ELSE IF parsedDate = undefined THEN Picked("invalidFormat", FALSE, undefined)
        ELSE IF validateDate(parsedDate, options, clock).errorMessage # ""
        THEN Picked(validateDate(parsedDate, options, clock).errorMessage, FALSE, undefined)
        ELSE Picked("", TRUE, parsedDate)

handleCompletionToggle(weekId, course) ==
    Handled("", Action("TOGGLE_COMPLETION", [weekId |-> weekId, courseId |-> course.id]))

\* the picker has handled an input: the row's handler runs when the picker
\* called onChange, nothing else happens when it did not
PickerEdit(name, picked, handled) ==
    IF picked.called THEN RowEdit(name, handled)
    ELSE RowEdit("handleDateChange", Handled(picked.error, NoAction))

\* the row's options never ask for the warning on future dates, so the
\* clock matters by its day only
RowClocks == {clock \in Clocks : clock.now = clock.today}

StartDateInput ==
    \E x \in Rows(state), inputValue \in InputValues, clock \in RowClocks :
        LET picked == handleDateChange(FALSE, inputValue, startDateValidationOptions, clock)
        IN  /\ PickerEdit("handleStartDateChange", picked,
                          handleStartDateChange(state.weeks[x[1]].id, CourseAt(state, x),
                                                picked.date, clock))

EndDateInput ==
    \E x \in Rows(state), inputValue \in InputValues, clock \in RowClocks :
        LET picked == handleDateChange(FALSE, inputValue, endDateValidationOptions, clock)
        IN  /\ PickerEdit("handleEndDateChange", picked,
                          handleEndDateChange(state.weeks[x[1]].id, CourseAt(state, x),
                                              picked.date, clock))

CompletionToggle ==
    \E x \in Rows(state) :
        /\ RowEdit("handleCompletionToggle",
                   handleCompletionToggle(state.weeks[x[1]].id, CourseAt(state, x)))

NextRowEdits == StartDateInput \/ EndDateInput \/ CompletionToggle

SpecRowEdits == InitCourseRow /\ [][NextRowEdits]_vars

(***************************************************************************)
(* SpecStatistics: one call of getProgressStatistics on a tree of up to    *)
(* NumWeeks weeks of up to MaxCourses + 1 courses, the first of them       *)
(* completed, with the progress values recomputed or left as they were.    *)
(* `arg` is the tree, `ret` the statistics.                                *)
(***************************************************************************)
\* a week of `courses` courses, the first `completed` completed
WeekOf(w, courses, completed, progress) ==
    Week(w, "week " \o ToString(w),
         [i \in 1..courses |->
             Course(CourseId(w, i), "course " \o CourseId(w, i),
                    undefined, undefined, i <= completed)],
         progress)

WeekShapes ==
    {x \in (0..2) \X (0..2) \X {0, 50, 100} : x[2] <= x[1]}

\* weeks long enough for a percentage to round to 100 or to 0 with one
\* course left: <<courses, completed>>
LongWeekShapes ==
    {<<n, n - 1>> : n \in 180..200} \cup {<<n, 1>> : n \in 180..201}
LongTrees ==
    {updateAllProgress(CurriculumState(<<WeekOf(1, x[1], x[2], 0)>>, 0)) : x \in LongWeekShapes}

StatisticsInputs ==
    LET shaped == UNION {[1..k -> WeekShapes] : k \in 0..NumWeeks}
        stale == {CurriculumState([w \in DOMAIN f |-> WeekOf(w, f[w][1], f[w][2], f[w][3])], 0) :
                     f \in shaped}
    IN  stale \cup {updateAllProgress(s) : s \in stale} \cup LongTrees

InitStatistics ==
    /\ state = getInitialCurriculumState
    /\ prev = state
    /\ store = NoItem /\ faulty = FALSE /\ op = "init" /\ action = NoAction
    /\ prevStore = NoItem
    /\ ret = getProgressStatistics(state)
    /\ arg = state

GetProgressStatistics ==
    \E s \in StatisticsInputs :
        /\ op = "init"
        /\ op' = "getProgressStatistics"
        /\ arg' = s
        /\ ret' = getProgressStatistics(s)
        /\ UNCHANGED <<state, store, faulty, action, prev, prevStore>>

NextStatistics == GetProgressStatistics

SpecStatistics == InitStatistics /\ [][NextStatistics]_vars

(***************************************************************************)
(* Vocabulary of the properties                                            *)
(***************************************************************************)
TargetTypes == {"SET_START_DATE", "SET_END_DATE", "TOGGLE_COMPLETION"}
DateTypes == {"SET_START_DATE", "SET_END_DATE"}

\* the tree s has a week weekId holding a course courseId
Exists(s, weekId, courseId) ==
    \E i \in 1..Len(s.weeks) :
        /\ s.weeks[i].id = weekId
        /\ \E j \in 1..Len(s.weeks[i].courses) : s.weeks[i].courses[j].id = courseId

\* the payload names a week id and a course id
NamesTarget(p) ==
    /\ Has(p, "weekId") /\ p.weekId # undefined
    /\ Has(p, "courseId") /\ p.courseId # undefinedId

\* the payload carries a date
NamesDate(p) == Has(p, "date") /\ p.date # undefined

\* the last step dispatched an action of one of the given types
Dispatched(types) == op = "dispatch" /\ action.type \in types

\* round(100 * c / n), 0 when n = 0
Percent(c, n) == IF n = 0 THEN 0 ELSE ExactPercent(c, n)

TotalCourses(s) == Reduce([i \in 1..Len(s.weeks) |-> Len(s.weeks[i].courses)])
TotalCompleted(s) ==
    Reduce([i \in 1..Len(s.weeks) |-> CompletedCount(s.weeks[i].courses)])

\* the two trees have the same weeks and courses in the same order, with
\* the same ids, titles and names
SameShape(s, t) ==
    /\ Len(s.weeks) = Len(t.weeks)
    /\ \A i \in 1..Len(s.weeks) :
        /\ s.weeks[i].id = t.weeks[i].id
        /\ s.weeks[i].title = t.weeks[i].title
        /\ Len(s.weeks[i].courses) = Len(t.weeks[i].courses)
        /\ \A j \in 1..Len(s.weeks[i].courses) :
            /\ s.weeks[i].courses[j].id = t.weeks[i].courses[j].id
            /\ s.weeks[i].courses[j].name = t.weeks[i].courses[j].name

\* every progress field of s is the one the progress engine computes
ProgressRecomputed(s) ==
    /\ \A i \in 1..Len(s.weeks) :
        s.weeks[i].progress = calculateWeekProgress(s.weeks[i].courses)
    /\ s.overallProgress = calculateOverallProgress(s.weeks)

\* s and t carry the same progress values
SameProgress(s, t) ==
    /\ s.overallProgress = t.overallProgress
    /\ \A i \in 1..Len(s.weeks) : s.weeks[i].progress = t.weeks[i].progress

(***************************************************************************)
(* C2: in every state reachable from the seed by reducer actions, each     *)
(* week's progress is round(100 * completed / total) over its courses (0   *)
(* for a week without courses) and overallProgress is round(100 *          *)
(* totalCompleted / totalCourses) over all courses (0 when there is none). *)
(***************************************************************************)
DerivedValueInvariant ==
    /\ \A i \in 1..Len(state.weeks) :
        state.weeks[i].progress =
            Percent(CompletedCount(state.weeks[i].courses), Len(state.weeks[i].courses))
    /\ state.overallProgress = Percent(TotalCompleted(state), TotalCourses(state))

(***************************************************************************)
(* C4: TOGGLE_COMPLETION, SET_START_DATE or SET_END_DATE naming a week or  *)
(* course that the state does not contain returns a state equal to the     *)
(* input, whatever the input's progress fields are.                        *)
(***************************************************************************)
NotFoundIsNoOp ==
    (/\ Dispatched(TargetTypes)
     /\ NamesTarget(action.payload)
     /\ ~Exists(prev, action.payload.weekId, action.payload.courseId))
        => state = prev

(***************************************************************************)
(* C5: an action of unknown type, a TOGGLE_COMPLETION without weekId or    *)
(* courseId, a SET_START_DATE / SET_END_DATE without weekId, courseId or   *)
(* date, and a LOAD_DATA without data return the input state.              *)
(***************************************************************************)
Malformed(a) ==
    \/ a.type \notin CurriculumActionType
    \/ a.type = "TOGGLE_COMPLETION" /\ ~NamesTarget(a.payload)
    \/ a.type \in DateTypes /\ (~NamesTarget(a.payload) \/ ~NamesDate(a.payload))
    \/ a.type = "LOAD_DATA" /\ ~Has(a.payload, "data")

MalformedIsNoOp == (op = "dispatch" /\ Malformed(action)) => state = prev

\* a SET_START_DATE without a date has been dispatched for a completed
\* course that has a start date
MalformedWitness ==
    /\ Dispatched({"SET_START_DATE"})
    /\ NamesTarget(action.payload) /\ ~NamesDate(action.payload)
    /\ \E x \in Addressed(prev, action.payload.weekId, action.payload.courseId) :
        CourseAt(prev, x).startDate \in Dates /\ CourseAt(prev, x).completed

(***************************************************************************)
(* C6: TOGGLE_COMPLETION naming an existing course negates completed on    *)
(* that course only: weeks and courses keep their order, ids, titles and   *)
(* names, every course keeps its dates, every other course keeps           *)
(* completed, and the progress fields are the recomputed ones.             *)
(***************************************************************************)
ToggleEffect ==
    (/\ Dispatched({"TOGGLE_COMPLETION"})
     /\ NamesTarget(action.payload)
     /\ Exists(prev, action.payload.weekId, action.payload.courseId))
        => /\ SameShape(state, prev)
           /\ \A x \in Positions(prev) :
               /\ CourseAt(state, x).startDate = CourseAt(prev, x).startDate
               /\ CourseAt(state, x).endDate = CourseAt(prev, x).endDate
               /\ CourseAt(state, x).completed =
                     IF x \in Addressed(prev, action.payload.weekId, action.payload.courseId)
                     THEN ~CourseAt(prev, x).completed
                     ELSE CourseAt(prev, x).completed
           /\ Cardinality(Addressed(prev, action.payload.weekId, action.payload.courseId)) = 1
           /\ ProgressRecomputed(state)

\* a completed, dated course with a sibling in its week has been toggled
\* back to incomplete
ToggleWitness ==
    /\ Dispatched({"TOGGLE_COMPLETION"})
    /\ NamesTarget(action.payload)
    /\ \E x \in Addressed(prev, action.payload.weekId, action.payload.courseId) :
        /\ CourseAt(prev, x).completed /\ ~CourseAt(state, x).completed
        /\ CourseAt(prev, x).startDate \in Dates
        /\ Len(prev.weeks[x[1]].courses) > 1
        /\ state.weeks[x[1]].progress # prev.weeks[x[1]].progress

(***************************************************************************)
(* C7: in a state the reducer reaches from the seed, SET_START_DATE        *)
(* (SET_END_DATE) naming an existing course and a date stores the date as  *)
(* that course's startDate (endDate) whatever the other date is; the       *)
(* course's other date and completed, every other course and every         *)
(* progress value stay as they were.                                       *)
(***************************************************************************)
SetDateEffect ==
    (/\ Dispatched(DateTypes)
     /\ NamesTarget(action.payload) /\ NamesDate(action.payload)
     /\ Exists(prev, action.payload.weekId, action.payload.courseId))
        => LET hit == Addressed(prev, action.payload.weekId, action.payload.courseId)
               isStart == action.type = "SET_START_DATE"
           IN  /\ SameShape(state, prev)
               /\ Cardinality(hit) = 1
               /\ \A x \in Positions(prev) :
                   /\ CourseAt(state, x).completed = CourseAt(prev, x).completed
                   /\ CourseAt(state, x).startDate =
                         IF x \in hit /\ isStart THEN action.payload.date
                         ELSE CourseAt(prev, x).startDate
                   /\ CourseAt(state, x).endDate =
                         IF x \in hit /\ ~isStart THEN action.payload.date
                         ELSE CourseAt(prev, x).endDate
               /\ SameProgress(state, prev)

\* a start date later than the course's end date has been stored
SetDateWitness ==
    /\ Dispatched({"SET_START_DATE"})
    /\ NamesTarget(action.payload) /\ NamesDate(action.payload)
    /\ \E x \in Addressed(prev, action.payload.weekId, action.payload.courseId) :
        /\ CourseAt(prev, x).endDate \in Dates
        /\ CourseAt(state, x).startDate > CourseAt(state, x).endDate
        /\ CourseAt(state, x).startDate # CourseAt(prev, x).startDate

UniqueIds(s) ==
    /\ \A i, j \in 1..Len(s.weeks) : s.weeks[i].id = s.weeks[j].id => i = j
    /\ \A i \in 1..Len(s.weeks) :
        \A j, k \in 1..Len(s.weeks[i].courses) :
            s.weeks[i].courses[j].id = s.weeks[i].courses[k].id => j = k

\* the two trees of the same shape agree on every course's completion
\* flag and dates
SameMarks(s, t) ==
    \A x \in Positions(s) :
        /\ CourseAt(s, x).completed = CourseAt(t, x).completed
        /\ CourseAt(s, x).startDate = CourseAt(t, x).startDate
        /\ CourseAt(s, x).endDate = CourseAt(t, x).endDate

(***************************************************************************)
(* C3: when a state with unique ids and valid or absent dates has been     *)
(* saved and its record is still the stored item, a load with a seed of    *)
(* the same weeks and courses, storage being available, returns a state    *)
(* in which every course has the completion flag, the start date and the   *)
(* end date of the saved state.                                            *)
(***************************************************************************)
RoundTripFidelity ==
    (/\ op = "load" /\ arg.env.probe
     /\ prev # null /\ UniqueIds(prev) /\ SameShape(arg.state, prev))
        => /\ ret.ok
           /\ SameShape(ret.value, prev)
           /\ SameMarks(ret.value, prev)

\* a state with a completed course that has a start date and no end date
\* has come back through a seed in which every course is completed and
\* dated
RoundTripWitness ==
    /\ op = "load" /\ ret.ok /\ prev # null
    /\ arg.state = FilledCatalog
    /\ SameShape(prev, FilledCatalog)
    /\ CourseAt(prev, <<1, 1>>).completed
    /\ CourseAt(prev, <<1, 1>>).startDate = MaxDate
    /\ CourseAt(prev, <<1, 1>>).endDate = undefined
    /\ ~CourseAt(prev, <<NumWeeks, 1>>).completed

(***************************************************************************)
(* C9: when a load has returned null because the stored text is not        *)
(* JSON, because the record fails the structural validation or because     *)
(* its version is not 1.0.0, the item is gone from the store; with the     *)
(* storage available, a following getStorageInfo reports no data and a     *)
(* following load returns null the way it does for an absent record.       *)
(***************************************************************************)
SelfHealLogs ==
    {"Failed to load curriculum state:",
     "Invalid stored data format, using initial state",
     "Version mismatch"}

SelfHealed == op = "load" /\ ret.value = null /\ ret.log \in SelfHealLogs

SelfHealStep ==
    SelfHealed =>
        /\ store = NoItem
        /\ (op' = "info" /\ arg'.env.probe) => ~ret'.ok
        /\ (op' = "load" /\ arg'.env.probe) =>
                /\ ret'.value = null
                /\ ret'.log = "No saved curriculum state found"
                /\ ret'.calls = <<"getItem">>

CorruptedRecordSelfHeal == [][SelfHealStep]_vars

\* each of the three causes has removed a stored item
SelfHealWitnessParse ==
    SelfHealed /\ prevStore = InvalidJson /\ store = NoItem

SelfHealWitnessInvalid ==
    /\ SelfHealed /\ store = NoItem
    /\ prevStore = Text("json", StoredRecord(JsString(STORAGE_VERSION),
                                             JsString("invalid structure")))

SelfHealWitness ==
    /\ SelfHealed /\ store = NoItem
    /\ prevStore.kind = "json"
    /\ validateStoredData(prevStore.value)
    /\ Get(prevStore.value, "version") = JsString("2.0.0")

(***************************************************************************)
(* C10: a successful load returns the seed's weeks and courses, in the     *)
(* seed's order with the seed's ids, titles and names.  A course whose     *)
(* week (by the week id as a string) and id the record has an entry for    *)
(* takes the entry's completion flag and dates, a date the entry lacks     *)
(* being absent and a date it holds as an ISO string being that date; a    *)
(* week or course without an entry is the seed's; the entries for other    *)
(* weeks and courses leave no trace.                                       *)
(***************************************************************************)
\* the record's entry for the course at position x of the seed, or
\* undefined
EntryFor(record, seed, x) ==
    Get(Get(Get(record, "curriculum"), ToString(seed.weeks[x[1]].id)),
        CourseAt(seed, x).id)

\* the entry's date property is absent or the ISO string of a date
PlainDate(v) == v.t = "undefined" \/ \E d \in Dates : v = JsString(toISOString(d))

EntryDate(v) ==
    IF v.t = "undefined" THEN undefined
    ELSE CHOOSE d \in Dates : v = JsString(toISOString(d))

LoadMerge ==
    (op = "load" /\ ret.ok) =>
        LET record == prevStore.value
            seed   == arg.state
        IN  /\ SameShape(ret.value, seed)
            /\ \A i \in 1..Len(seed.weeks) :
                    ret.value.weeks[i].progress = seed.weeks[i].progress
            /\ \A x \in Positions(seed) :
                LET entry == EntryFor(record, seed, x)
                    course == CourseAt(ret.value, x)
                IN  IF entry.t = "undefined"
                    THEN course = CourseAt(seed, x)
                    ELSE /\ course.completed = (Get(entry, "completed") = JsBoolean(TRUE))
                         /\ PlainDate(Get(entry, "startDate"))
                                => course.startDate = EntryDate(Get(entry, "startDate"))
                         /\ PlainDate(Get(entry, "endDate"))
                                => course.endDate = EntryDate(Get(entry, "endDate"))

\* a record with an entry for course 1-1, none for the other catalog
\* courses and entries outside the catalog has been loaded into a seed
\* whose courses are all completed and dated
LoadMergeWitness ==
    /\ op = "load" /\ ret.ok
    /\ prevStore = Text("json", PartialRecord)
    /\ arg.state = FilledCatalog
    /\ CourseAt(ret.value, <<1, 1>>).endDate = undefined
    /\ CourseAt(ret.value, <<NumWeeks, 1>>) = CourseAt(FilledCatalog, <<NumWeeks, 1>>)

(***************************************************************************)
(* C1: under the session controller with the storage working, after a      *)
(* page reload every course has the completion flag, the start date and    *)
(* the end date it had just before the reload.                             *)
(***************************************************************************)
ReloadRestores ==
    op = "reload" => SameShape(state, prev) /\ SameMarks(state, prev)

(***************************************************************************)
(* C11: with the storage available, a save whose first write of the        *)
(* record fails with QuotaExceededError removes the record and writes      *)
(* once more, returning true exactly when the second write succeeds (the   *)
(* record stays removed when it does not); a save whose conversion or      *)
(* first write fails in another way makes no further call, returns false   *)
(* and leaves the store alone; no save writes the record more than twice   *)
(* and none ends in an exception.                                          *)
(***************************************************************************)
Writes(calls) == Cardinality({i \in 1..Len(calls) : calls[i] = "setItem"})

SaveFailureHandling ==
    (op = "save" /\ arg.env.probe) =>
        /\ ret.log # Uncaught
        /\ Writes(ret.calls) <= 2
        /\ CASE ToStoredDataThrows(arg.state) ->
                    ~ret.ok /\ ret.calls = <<>> /\ store = prevStore
              [] arg.env.write1 = "ok" ->
                    ret.ok /\ ret.calls = <<"setItem">> /\ store.kind = "json"
              [] arg.env.write1 = "quota" ->
                    /\ ret.calls = <<"setItem", "removeItem", "setItem">>
                    /\ ret.ok = (arg.env.write2 = "ok")
                    /\ IF ret.ok THEN store.kind = "json" ELSE store = NoItem
              [] OTHER ->
                    ~ret.ok /\ ret.calls = <<"setItem">> /\ store = prevStore

\* a quota failure followed by a failed retry has cost the stored record
SaveFailureWitness ==
    /\ op = "save" /\ arg.env.probe /\ ~ToStoredDataThrows(arg.state)
    /\ arg.env.write1 = "quota" /\ arg.env.write2 = "error"
    /\ ~ret.ok /\ prevStore.kind = "json" /\ store = NoItem

\* a failure other than quota has left the stored record as it was
SaveFailureWitnessOther ==
    /\ op = "save" /\ arg.env.probe /\ arg.env.write1 = "error"
    /\ ~ret.ok /\ prevStore.kind = "json" /\ store = prevStore

(***************************************************************************)
(* C12: when the availability probe fails, save returns false, load        *)
(* returns null, clear returns false and getStorageInfo reports no data;   *)
(* none of them ends in an exception, none makes a call on the record key  *)
(* and the stored item is what it was.                                     *)
(***************************************************************************)
UnavailableIsNoOp ==
    (op \in {"save", "load", "clear", "info"} /\ ~arg.env.probe) =>
        /\ ~ret.ok
        /\ ret.value = null
        /\ ret.log # Uncaught
        /\ ret.calls = <<>>
        /\ store = prevStore

\* a load has returned null although the store holds a loadable record
UnavailableWitness ==
    /\ op = "load" /\ ~arg.env.probe
    /\ ret.value = null
    /\ loadCurriculumState(arg.state, store, Healthy).ok

\* a save and a clear have left a stored record alone
UnavailableWitnessWrite ==
    /\ op \in {"save", "clear"} /\ ~arg.env.probe
    /\ ~ret.ok /\ store.kind = "json"

(***************************************************************************)
(* C13: validateDate returns the outcome of the first applicable check in  *)
(* the fixed order: missing and required -> REQUIRED_FIELD; missing and    *)
(* not required -> valid; unparseable -> INVALID_FORMAT, also when         *)
(* required is set; date < minDate or date > maxDate, bounds inclusive ->  *)
(* INVALID_RANGE; disallowFutureDates and date strictly after today at     *)
(* midnight -> FUTURE_DATE; requireFutureDates and date on or before today *)
(* at midnight -> FUTURE_DATE; warnFutureDates and date strictly after now *)
(* -> FUTURE_DATE; otherwise valid with the empty message.                 *)
(***************************************************************************)
Missing(date) == date \in {undefined, nullDate}

Check(applies, errorType) == [errorType |-> errorType, applies |-> applies]

\* the checks of the policy in their order; "valid" stands for the valid outcome
PolicyChecks(v) ==
    LET d == v.date
        o == v.options
        present == d \in Dates
    IN  << Check(Missing(d) /\ o.required, "REQUIRED_FIELD"),
           Check(Missing(d), "valid"),
           Check(d = InvalidDate, "INVALID_FORMAT"),
           Check(present /\ o.minDate \in Dates /\ d < o.minDate, "INVALID_RANGE"),
           Check(present /\ o.maxDate \in Dates /\ d > o.maxDate, "INVALID_RANGE"),
           Check(present /\ o.disallowFutureDates /\ d > v.clock.today, "FUTURE_DATE"),
           Check(present /\ o.requireFutureDates /\ d <= v.clock.today, "FUTURE_DATE"),
           Check(present /\ o.warnFutureDates /\ d > v.clock.now, "FUTURE_DATE"),
           Check(TRUE, "valid") >>

FirstApplicable(checks) ==
    checks[CHOOSE i \in 1..Len(checks) :
              checks[i].applies /\ \A j \in 1..(i - 1) : ~checks[j].applies]

ValidateDateWitnessBounds ==
    /\ op = "validateDate"
    /\ arg.date \in Dates
    /\ arg.options.minDate = arg.date
    /\ arg.options.maxDate = arg.date
    /\ arg.options.warnFutureDates
    /\ ret.errorMessage = "futureDate"

(***************************************************************************)
(* C14: validateDateRange(start, end) is valid whenever either side is     *)
(* absent; otherwise it fails with INVALID_FORMAT if either side is an     *)
(* invalid date; otherwise it fails with START_AFTER_END exactly when      *)
(* start is strictly later than end, so equal dates are valid.             *)
(***************************************************************************)
ValidateRangeOutcome ==
    op = "validateDateRange" =>
        LET start == arg.date
            end == arg.otherDate
        IN  IF Missing(start) \/ Missing(end)
            THEN ret.isValid
            ELSE IF InvalidDate \in {start, end}
            THEN ~ret.isValid /\ ret.errorType = "INVALID_FORMAT"
            ELSE /\ ret.isValid = (start <= end)
                 /\ ~ret.isValid => ret.errorType = "START_AFTER_END"

ValidateRangeWitness ==
    /\ op = "validateDateRange"
    /\ arg.date \in Dates
    /\ arg.otherDate = arg.date
    /\ ret.isValid

ValidateRangeWitnessAfter ==
    /\ op = "validateDateRange"
    /\ arg.date \in Dates
    /\ arg.otherDate \in Dates
    /\ arg.date > arg.otherDate
    /\ ret.errorType = "START_AFTER_END"

(***************************************************************************)
(* C15: validateCourseDate returns validateDate(date, options) when that   *)
(* fails; otherwise, only if both dates are present, the failure of        *)
(* validateDateRange on (date, otherDate) when isStartDate and on          *)
(* (otherDate, date) when not; otherwise valid.  Hence for two valid dates *)
(* a and b, validateCourseDate(a, b, true) and validateCourseDate(b, a,    *)
(* false) fail with START_AFTER_END in exactly the same cases, a > b.      *)
(***************************************************************************)
StartAfterEnd(result) == ~result.isValid /\ result.errorType = "START_AFTER_END"

ValidateCourseDateOutcome ==
    op = "validateCourseDate" =>
        LET single == validateDate(arg.date, arg.options, arg.clock)
            range == IF arg.isStartDate
                     THEN validateDateRange(arg.date, arg.otherDate)
                     ELSE validateDateRange(arg.otherDate, arg.date)
            both == ~Missing(arg.date) /\ ~Missing(arg.otherDate)
            mirrored == validateCourseDate(arg.otherDate, arg.date, ~arg.isStartDate,
                                           NoOptions, arg.clock)
            start == IF arg.isStartDate THEN arg.date ELSE arg.otherDate
            end == IF arg.isStartDate THEN arg.otherDate ELSE arg.date
        IN  /\ ~single.isValid => ret = single
            /\ (single.isValid /\ both /\ ~range.isValid) => ret = range
            /\ (single.isValid /\ ~(both /\ ~range.isValid)) =>
                   ret.isValid /\ ret.errorMessage = ""
            /\ (arg.options = NoOptions /\ arg.date \in Dates /\ arg.otherDate \in Dates) =>
                   /\ StartAfterEnd(ret) = (start > end)
                   /\ StartAfterEnd(ret) = StartAfterEnd(mirrored)

\* an end date edited to lie before the start date
ValidateCourseDateWitness ==
    /\ op = "validateCourseDate"
    /\ ~arg.isStartDate
    /\ arg.options = NoOptions
    /\ arg.date \in Dates
    /\ arg.otherDate \in Dates
    /\ arg.otherDate > arg.date
    /\ StartAfterEnd(ret)

\* the single-date failure short-circuits the range check
ValidateCourseDateWitnessSingle ==
    /\ op = "validateCourseDate"
    /\ arg.date \in Dates
    /\ arg.otherDate = InvalidDate
    /\ arg.options.disallowFutureDates
    /\ ret.errorMessage = "futureDateNotAllowed"

(***************************************************************************)
(* C16: updateAllProgress is idempotent and changes only derived fields:   *)
(* updateAllProgress(updateAllProgress(s)) = updateAllProgress(s), and     *)
(* updateAllProgress(s) differs from s in nothing but the weeks' progress  *)
(* values and overallProgress.  Checked on the tree s that LOAD_DATA hands *)
(* to updateAllProgress, whose result is the new state.                    *)
(***************************************************************************)
\* t with every progress value replaced by the one s carries
WithProgressOf(t, s) ==
    CurriculumState([i \in 1..Len(t.weeks) |->
                        [t.weeks[i] EXCEPT !.progress = s.weeks[i].progress]],
                    s.overallProgress)

RecomputeIdempotent ==
    (Dispatched({"LOAD_DATA"}) /\ Has(action.payload, "data")) =>
        LET s == action.payload.data
        IN  /\ state = updateAllProgress(s)
            /\ updateAllProgress(state) = state
            /\ Len(state.weeks) = Len(s.weeks)
            /\ WithProgressOf(state, s) = s

\* a tree whose progress values were not the recomputed ones
RecomputeWitness ==
    /\ Dispatched({"LOAD_DATA"}) /\ Has(action.payload, "data")
    /\ action.payload.data = EmptyWeekTree
    /\ state # EmptyWeekTree
    /\ state.overallProgress = 0

(***************************************************************************)
(* C17: calculateOverallProgress(weeks) equals                             *)
(* round(100 * totalCompleted / totalCourses) over the courses of all      *)
(* weeks taken together; weeks with no courses do not affect the result,   *)
(* and it is 0 when there are no courses at all.  Checked on the weeks of  *)
(* the tree that LOAD_DATA recomputes.                                     *)
(***************************************************************************)
RECURSIVE Flatten(_)
Flatten(weeks) ==
    IF weeks = <<>> THEN <<>> ELSE Head(weeks).courses \o Flatten(Tail(weeks))

HasCourses(week) == week.courses # <<>>

OverallProgressFlattened ==
    (Dispatched({"LOAD_DATA"}) /\ Has(action.payload, "data")) =>
        LET weeks == action.payload.data.weeks
            all == Flatten(weeks)
        IN  /\ state.overallProgress = calculateOverallProgress(weeks)
            /\ calculateOverallProgress(weeks) = Percent(CompletedCount(all), Len(all))
            /\ calculateOverallProgress(SelectSeq(weeks, HasCourses))
                   = calculateOverallProgress(weeks)

(***************************************************************************)
(* C18: under the session controller, a save that fails leaves the         *)
(* in-memory state equal to the state the reducer produced for that        *)
(* action, and the next save that succeeds writes a record holding every   *)
(* course's current completed, startDate and endDate, including the edits  *)
(* whose own save failed.                                                  *)
(***************************************************************************)
\* the stored property v is the one a save writes for the date d
DateHeld(v, d) ==
    IF d = undefined THEN v.t = "undefined" ELSE v = JsString(toISOString(d))

\* the item is a record with an entry for every course of s, holding the
\* course's completion flag and dates
RecordHolds(item, s) ==
    /\ item.kind = "json"
    /\ \A x \in Positions(s) :
        LET entry == EntryFor(item.value, s, x)
            course == CourseAt(s, x)
        IN  /\ Get(entry, "completed") = JsBoolean(course.completed)
            /\ DateHeld(Get(entry, "startDate"), course.startDate)
            /\ DateHeld(Get(entry, "endDate"), course.endDate)

FailedSaveKeepsState ==
    op = "dispatch" =>
        /\ ~ret.ok => state = curriculumReducer(prev, action)
        /\ ret.ok => state = curriculumReducer(prev, action) /\ RecordHolds(store, state)

\* an edit was made on a state whose marks the store did not hold, its save
\* succeeded and the record holds the whole state
FailedSaveWitness ==
    /\ op = "dispatch"
    /\ ret.ok
    /\ HasMarks(prev)
    /\ ~RecordHolds(prevStore, prev)
    /\ state # prev
    /\ RecordHolds(store, state)

\* an edit whose save was attempted and failed
FailedSaveWitnessFailure ==
    /\ op = "dispatch"
    /\ ~ret.ok
    /\ ret.log # ""
    /\ state # prev
    /\ store = prevStore

(***************************************************************************)
(* C19: at session start, when loadCurriculumState returns null or throws, *)
(* no LOAD_DATA is dispatched and the state stays the seed catalog with    *)
(* every course incomplete and undated, every week progress 0 and          *)
(* overallProgress 0.                                                      *)
(***************************************************************************)
LoadFailureFallsBack ==
    (op \in {"mount", "reload"} /\ ret.value = null) =>
        /\ state = getInitialCurriculumState
        /\ ~HasMarks(state)
        /\ \A i \in 1..Len(state.weeks) : state.weeks[i].progress = 0
        /\ state.overallProgress = 0

\* a reload after edits, with storage unavailable
LoadFailureWitness ==
    /\ op = "reload"
    /\ ret.value = null
    /\ ~arg.env.probe
    /\ HasMarks(prev)
    /\ state = getInitialCurriculumState

\* a mount on a stored item that does not parse
LoadFailureWitnessCorrupt ==
    /\ op = "mount"
    /\ ret.value = null
    /\ prevStore = InvalidJson
    /\ store = NoItem

(***************************************************************************)
(* C20: when every date edit goes through the CourseRow / CourseCard       *)
(* handlers one at a time, starting from the seed state, a rejected edit   *)
(* dispatches no action and leaves the previous date in place, so no       *)
(* reachable state contains a course with both dates set and startDate     *)
(* later than endDate.                                                     *)
(***************************************************************************)
RowHandlers == {"handleStartDateChange", "handleEndDateChange"}

\* no course of s has both dates set with the start after the end
DatesOrdered(s) ==
    \A x \in Positions(s) :
        LET course == CourseAt(s, x)
        IN  (course.startDate # undefined /\ course.endDate # undefined) =>
                /\ course.startDate \in Dates
                /\ course.endDate \in Dates
                /\ course.startDate <= course.endDate

HandlersWitnessAccepted ==
    /\ op = "handleStartDateChange"
    /\ ret.error = ""
    /\ action # NoAction
    /\ state # prev
    /\ \E x \in Rows(state) : CourseAt(prev, x).endDate \in Dates /\ CourseAt(state, x) # CourseAt(prev, x)

(***************************************************************************)
(* C21: getProgressStatistics counts every week in exactly one bucket      *)
(* according to its progress field: completed iff progress = 100,          *)
(* in-progress iff 0 < progress < 100, not-started iff progress = 0 (a     *)
(* week with no courses, once recomputed, is not-started); the three       *)
(* counts add up to totalWeeks and remainingCourses = totalCourses -       *)
(* completedCourses.                                                       *)
(***************************************************************************)
WeeksWhere(s, from, to) ==
    {i \in 1..Len(s.weeks) : from <= s.weeks[i].progress /\ s.weeks[i].progress <= to}

StatisticsBuckets ==
    op = "getProgressStatistics" =>
        /\ ret.totalWeeks = Len(arg.weeks)
        /\ ret.completedWeeks = Cardinality(WeeksWhere(arg, 100, 100))
        /\ ret.inProgressWeeks = Cardinality(WeeksWhere(arg, 1, 99))
        /\ ret.notStartedWeeks = Cardinality(WeeksWhere(arg, 0, 0))
        /\ ret.completedWeeks + ret.inProgressWeeks + ret.notStartedWeeks = ret.totalWeeks
        /\ ret.totalCourses = Len(Flatten(arg.weeks))
        /\ ret.completedCourses = CompletedCount(Flatten(arg.weeks))
        /\ ret.remainingCourses = ret.totalCourses - ret.completedCourses
        /\ arg = updateAllProgress(arg) =>
               \A i \in 1..Len(arg.weeks) :
                   arg.weeks[i].courses = <<>> => i \in WeeksWhere(arg, 0, 0)

\* one week in each bucket, the not-started one without courses
StatisticsWitness ==
    /\ op = "getProgressStatistics"
    /\ arg = updateAllProgress(arg)
    /\ ret.completedWeeks >= 1
    /\ ret.notStartedWeeks >= 1
    /\ \E i \in 1..Len(arg.weeks) : arg.weeks[i].courses = <<>>

\* a week in progress
StatisticsWitnessInProgress ==
    /\ op = "getProgressStatistics"
    /\ ret.inProgressWeeks >= 1
    /\ ret.remainingCourses >= 1

(***************************************************************************)
(* C22: loadCurriculumState returns null for every stored record in which  *)
(* some course entry has a completed value that is not a boolean, or has a *)
(* startDate or endDate that is present and is not a string (a number, a   *)
(* boolean, an object).  A null date is taken as absent.                   *)
(***************************************************************************)
\* the course entries of the record's curriculum
CourseEntries(record) ==
    LET curriculum == Get(record, "curriculum")
        weeks == {curriculum.props[w] : w \in DOMAIN curriculum.props}
    IN  UNION {{weekData.props[c] : c \in DOMAIN weekData.props} : weekData \in weeks}

PresentNotString(v) == v.t \notin {"undefined", "null", "string"}

MistypedEntry(entry) ==
    \/ Get(entry, "completed").t # "boolean"
    \/ PresentNotString(Get(entry, "startDate"))
    \/ PresentNotString(Get(entry, "endDate"))

RejectsMistypedEntries ==
    (/\ op = "load" /\ arg.env.probe
     /\ prevStore.kind = "json"
     /\ \E entry \in CourseEntries(prevStore.value) : MistypedEntry(entry))
        => ~ret.ok /\ ret.value = null

(***************************************************************************)
(* C23: after a successful saveCurriculumState(s), the stored record's     *)
(* curriculum contains an entry for exactly the weeks and courses of s and *)
(* nothing else: no week or course entry written by an earlier save        *)
(* survives, whatever saves preceded it, and version is '1.0.0'.           *)
(***************************************************************************)
WeekKeys(s) == {ToString(s.weeks[i].id) : i \in 1..Len(s.weeks)}

CourseKeys(s, w) ==
    UNION {{s.weeks[i].courses[j].id : j \in 1..Len(s.weeks[i].courses)} :
              i \in {i \in 1..Len(s.weeks) : ToString(s.weeks[i].id) = w}}

SaveOverwrites ==
    (op = "save" /\ ret.ok) =>
        /\ store.kind = "json"
        /\ Get(store.value, "version") = JsString("1.0.0")
        /\ LET curriculum == Get(store.value, "curriculum")
           IN  /\ curriculum.t = "object"
               /\ DOMAIN curriculum.props = WeekKeys(arg.state)
               /\ \A w \in DOMAIN curriculum.props :
                    /\ DOMAIN curriculum.props[w].props \subseteq CourseKeys(arg.state, w)
                    /\ UniqueIds(arg.state) =>
                           DOMAIN curriculum.props[w].props = CourseKeys(arg.state, w)

\* a record holding a week the saved state does not have has been replaced
SaveOverwritesWitness ==
    /\ op = "save" /\ ret.ok
    /\ prevStore.kind = "json"
    /\ Get(prevStore.value, "curriculum").t = "object"
    /\ \E w \in DOMAIN Get(prevStore.value, "curriculum").props : w \notin WeekKeys(arg.state)
    /\ arg.state.weeks # <<>>
    /\ DOMAIN Get(store.value, "curriculum").props = WeekKeys(arg.state)

(***************************************************************************)
(* C24: under the session controller started from the seed with no stored  *)
(* record, the number of saveCurriculumState calls always equals the       *)
(* number of dispatched actions that changed the state: no save happens    *)
(* before the first change, and each state-changing action is followed by  *)
(* exactly one save whose argument is the state that action produced.      *)
(* Stated step by step: the mount saves nothing, and a dispatch calls save *)
(* exactly when it changed the state, with the new state.                  *)
(***************************************************************************)
\* the step's save effect called saveCurriculumState
SaveCalled == ret.log # ""

OneSavePerChange ==
    /\ op = "mount" => store = NoItem
    /\ op = "dispatch" =>
        /\ SaveCalled = (state # prev)
        /\ SaveCalled => arg.state = state

(***************************************************************************)
(* C25: when the session starts and loadCurriculumState returns a saved    *)
(* state, the overall progress after initialization equals the             *)
(* overallProgress field of that saved state.                              *)
(***************************************************************************)
\* the step is a session start whose load returned a state
StartLoaded == op \in {"mount", "reload"} /\ ret.value # null

LoadedProgressShown ==
    StartLoaded => state.overallProgress = ret.value.overallProgress

(***************************************************************************)
(* C26: from any state reachable from the seed, dispatching                *)
(* TOGGLE_COMPLETION twice for the same existing (weekId, courseId) yields *)
(* a state equal to the state before the two dispatches, every week's      *)
(* progress and overallProgress included.  Stated on the step that         *)
(* dispatched the first toggle: reducing the same action once more gives   *)
(* the state the step started from.                                        *)
(***************************************************************************)
ToggleTwiceRestores ==
    (/\ Dispatched({"TOGGLE_COMPLETION"})
     /\ NamesTarget(action.payload)
     /\ Exists(prev, action.payload.weekId, action.payload.courseId))
        => curriculumReducer(state, action) = prev

\* a toggle changed the progress of a tree holding a dated course, and the
\* second toggle brings the tree back
ToggleTwiceWitness ==
    /\ Dispatched({"TOGGLE_COMPLETION"})
    /\ NamesTarget(action.payload)
    /\ Exists(prev, action.payload.weekId, action.payload.courseId)
    /\ state.overallProgress # prev.overallProgress
    /\ \E x \in Positions(prev) : CourseAt(prev, x).startDate \in Dates
    /\ \E x \in Positions(prev) : CourseAt(prev, x).completed
    /\ curriculumReducer(state, action) = prev

(***************************************************************************)
(* C27: a saveCurriculumState call that returns false leaves the store     *)
(* exactly as it was before the call: the previously stored record, if     *)
(* any, is still present and unchanged.                                    *)
(***************************************************************************)
SaveFailed == op = "save" /\ ~ret.ok

FailedSaveKeepsStore == SaveFailed => store = prevStore

(***************************************************************************)
(* C27, amended: a saveCurriculumState call that returns false leaves the  *)
(* store exactly as it was before the call, except when the first write    *)
(* failed with QuotaExceededError: the record was then removed before the  *)
(* retry, and the store holds no record.                                   *)
(***************************************************************************)
\* the call reached the first write and it failed for lack of room
QuotaExceeded ==
    /\ arg.env.probe
    /\ ~ToStoredDataThrows(arg.state)
    /\ arg.env.write1 = "quota"

FailedSaveStore ==
    SaveFailed => store = IF QuotaExceeded THEN NoItem ELSE prevStore

\* a state that cannot be converted was not saved, the record is still there
FailedSaveStoreWitness ==
    /\ SaveFailed
    /\ arg.env.probe /\ ToStoredDataThrows(arg.state)
    /\ prevStore.kind = "json" /\ store = prevStore

(***************************************************************************)
(* C28: once a course's startDate (resp. endDate) is set, no sequence of   *)
(* SET_START_DATE, SET_END_DATE and TOGGLE_COMPLETION actions makes it     *)
(* absent again: a SET_* action without a date is a no-op, including the   *)
(* one dispatched when the user clears the date input (the picker calls    *)
(* onChange(undefined), the row dispatches it, the reducer ignores it).    *)
(***************************************************************************)
\* every date set in s is set in t
DatesKept(s, t) ==
    /\ SameShape(s, t)
    /\ \A x \in Positions(s) :
        /\ CourseAt(s, x).startDate # undefined => CourseAt(t, x).startDate # undefined
        /\ CourseAt(s, x).endDate # undefined => CourseAt(t, x).endDate # undefined

SetDateStaysSet ==
    /\ DatesKept(prev, state)
    /\ (action.type \in DateTypes /\ ~NamesDate(action.payload)) => state = prev

\* the start date input of a dated course was cleared
SetDateStaysSetWitness ==
    /\ op = "handleStartDateChange"
    /\ action.type = "SET_START_DATE"
    /\ action.payload.date = undefined
    /\ \E x \in Addressed(prev, action.payload.weekId, action.payload.courseId) :
        /\ CourseAt(prev, x).startDate \in Dates
        /\ CourseAt(state, x).startDate = CourseAt(prev, x).startDate

(***************************************************************************)
(* C29: every state returned by a successful loadCurriculumState contains  *)
(* only absent or valid dates, so saving that state again (with storage    *)
(* available and writes succeeding) returns true.                          *)
(***************************************************************************)
\* every date of s is absent or a valid date
DatesValid(s) ==
    \A x \in Positions(s) :
        /\ CourseAt(s, x).startDate \in Dates \cup {undefined}
        /\ CourseAt(s, x).endDate \in Dates \cup {undefined}

LoadedDatesValid ==
    (op = "load" /\ ret.value # null) =>
        /\ DatesValid(ret.value)
        /\ saveCurriculumState(ret.value, store, Healthy).ok

(***************************************************************************)
(* C30: for a week with any number of courses (and for the whole           *)
(* curriculum), the recomputed progress is 100 only if every course is     *)
(* completed and is 0 only if no course is completed, so                   *)
(* getProgressStatistics counts a week as completed exactly when it is     *)
(* non-empty with all courses completed and as not-started exactly when    *)
(* none of its courses is completed.                                       *)
(***************************************************************************)
AllCompleted(courses) == courses # <<>> /\ CompletedCount(courses) = Len(courses)
NoneCompleted(courses) == CompletedCount(courses) = 0

\* the progress fields of s and the counts of its statistics tell all from
\* not all and none from some
EndsExact(s, statistics) ==
    /\ \A i \in 1..Len(s.weeks) :
        /\ s.weeks[i].progress = 100 => AllCompleted(s.weeks[i].courses)
        /\ s.weeks[i].progress = 0 => NoneCompleted(s.weeks[i].courses)
    /\ s.overallProgress = 100 => TotalCompleted(s) = TotalCourses(s)
    /\ s.overallProgress = 0 => TotalCompleted(s) = 0
    /\ statistics.completedWeeks =
          Cardinality({i \in 1..Len(s.weeks) : AllCompleted(s.weeks[i].courses)})
    /\ statistics.notStartedWeeks =
          Cardinality({i \in 1..Len(s.weeks) : NoneCompleted(s.weeks[i].courses)})

ProgressEndsExact ==
    (op = "getProgressStatistics" /\ ProgressRecomputed(arg)) => EndsExact(arg, ret)

(***************************************************************************)
(* C30, amended: for a curriculum of fewer than 200 courses, the           *)
(* recomputed progress of a week and of the whole is 100 only if every     *)
(* course is completed and 0 only if no course is completed, so            *)
(* getProgressStatistics counts a week as completed exactly when it is     *)
(* non-empty with all courses completed and as not-started exactly when    *)
(* none of its courses is completed.                                       *)
(***************************************************************************)
ProgressEndsExactBelow ==
    (/\ op = "getProgressStatistics"
     /\ ProgressRecomputed(arg)
     /\ TotalCourses(arg) < 200) => EndsExact(arg, ret)

\* a week of 199 courses with one course left is in progress at 99
ProgressEndsWitness ==
    /\ op = "getProgressStatistics"
    /\ ProgressRecomputed(arg)
    /\ TotalCourses(arg) = 199 /\ TotalCompleted(arg) = 198
    /\ arg.overallProgress = 99
    /\ ret.completedWeeks = 0 /\ ret.inProgressWeeks = 1

====
